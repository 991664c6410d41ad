---------------------------- MODULE MCMessageOutbox ----------------------------
(***************************************************************************)
(* Small instances of MessageOutbox.  Four jobs to choose from: two text   *)
(* messages to one phone and two e-mails to one mailbox, of each pair one  *)
(* that belongs to a review campaign and one that does not.                *)
(***************************************************************************)
EXTENDS MessageOutboxProperties, TLC

CONSTANTS reminder, notice, mail, mailNotice, run1, run2, phone, mailbox, campaign

DestinationOf == [j \in Jobs |-> IF j \in {mail, mailNotice} THEN mailbox ELSE phone]
CampaignOf == [j \in Jobs |-> IF j \in {notice, mailNotice} THEN None ELSE campaign]

RunSymmetry == Permutations(Runs)
================================================================================
