--------------------------- MODULE MCUsageTracker ---------------------------
(* Instances of UsageTracker: one user, who may change from one tier to     *)
(* another, and the features of two endpoints.                              *)
EXTENDS UsageTracker, TLC

CONSTANTS user, free, starter, premium

\* The features of the table in smaller numbers; "search" is a feature of an
\* endpoint that the table does not name.
MCTierLimits ==
    (free    :> [daily_search |-> 1, daily_details |-> 2]) @@
    (starter :> [daily_search |-> 2, daily_details |-> 3]) @@
    (premium :> [daily_search |-> -1, daily_details |-> -1])

Upgrades == {<<user, free>>, <<user, starter>>, <<user, premium>>}

Symmetric == Permutations(Conns)
=============================================================================
