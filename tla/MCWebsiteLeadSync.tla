--------------------------- MODULE MCWebsiteLeadSync ---------------------------
(***************************************************************************)
(* One or two leads, each of which may match a customer from the start.    *)
(***************************************************************************)
EXTENDS WebsiteLeadSync, TLC

CONSTANTS lead1, lead2, run1, run2, run3

Symmetry == Permutations(Events) \cup Permutations(Runs)
================================================================================
