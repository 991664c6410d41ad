--------------------------- MODULE MCReviewTimeline ----------------------------
(* Eastern time with the change of the clock on the first Sunday, forward and *)
(* back, and without one.                                                     *)
EXTENDS ReviewTimeline

Sunday == 6 * 24

EasternZones ==
    {[before |-> -5, after |-> -4, switch |-> Sunday + 7],
     [before |-> -4, after |-> -5, switch |-> Sunday + 6],
     [before |-> -5, after |-> -5, switch |-> Sunday + 7]}
================================================================================
