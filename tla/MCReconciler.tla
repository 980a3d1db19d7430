--------------------------- MODULE MCReconciler ---------------------------
EXTENDS Reconciler, TLC

CONSTANTS q1

MCQueries == {q1}

\* No guard reads the timeline, so states that differ only in it are merged.
MCView == <<server, pushes, page, allQueries, pendingShown,
            pendingReqs, allReqs, actions>>
=============================================================================
