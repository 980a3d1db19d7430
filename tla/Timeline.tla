------------------------------ MODULE Timeline ------------------------------
(***************************************************************************)
(* The activity timeline of the dashboard (dashboard.js, addTimelineEvent):*)
(* state.timelineEvents is an array, newest first, capped at MAX_TIMELINE. *)
(* This module holds the insertion operator only; Reconciler applies it in *)
(* every handler that records an event, and TimelineHistory checks it      *)
(* against the reference "the MaxTimeline most recent events".             *)
(***************************************************************************)
EXTENDS Naturals, Sequences

CONSTANT MaxTimeline          \* MAX_TIMELINE (50 in the code)

ASSUME TimelineBoundAssumption == MaxTimeline \in Nat \ {0}

\* A mutant: the event is appended (push) instead of prepended (unshift).
AddTimelineEventAppend(tl, e) ==
  LET u == Append(tl, e)
  IN  IF Len(u) > MaxTimeline THEN SubSeq(u, 1, MaxTimeline) ELSE u

(***************************************************************************)
(* addTimelineEvent: unshift the event, then, if the array is longer than  *)
(* MAX_TIMELINE, keep slice(0, MAX_TIMELINE). The event record (type,      *)
(* title, detail, timestamp) is abstracted to the value e.                 *)
(***************************************************************************)
AddTimelineEvent(tl, e) ==
  LET u == <<e>> \o tl
  IN  IF Len(u) > MaxTimeline THEN SubSeq(u, 1, MaxTimeline) ELSE u

\* The reference: the last MaxTimeline entries of a history, newest first.
RecentFirst(h) ==
  LET n == IF Len(h) < MaxTimeline THEN Len(h) ELSE MaxTimeline
  IN  [i \in 1..n |-> h[Len(h) + 1 - i]]
=============================================================================
