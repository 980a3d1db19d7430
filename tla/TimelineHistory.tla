--------------------------- MODULE TimelineHistory ---------------------------
(***************************************************************************)
(* A harness for the timeline buffer: events of a few kinds are recorded   *)
(* one at a time; `history` is a ghost holding every event ever recorded,  *)
(* oldest first, and `timeline` is state.timelineEvents as the code keeps  *)
(* it.                                                                     *)
(***************************************************************************)
EXTENDS Timeline

CONSTANTS Events,             \* the event values that can be recorded
          MaxEvents           \* bound on the length of a run

VARIABLES timeline, history

vars == <<timeline, history>>

Init ==
  /\ timeline = <<>>          \* timelineEvents: []
  /\ history = <<>>

\* Some handler calls addTimelineEvent(e).
Record(e) ==
  /\ Len(history) < MaxEvents
  /\ timeline' = AddTimelineEvent(timeline, e)
  /\ history' = Append(history, e)

Next == \E e \in Events : Record(e)

Spec == Init /\ [][Next]_vars

TypeOK ==
  /\ timeline \in Seq(Events)
  /\ history \in Seq(Events)

(***************************************************************************)
(* The buffer addTimelineEvent maintains is exactly the MaxTimeline most   *)
(* recent events, newest first, whatever the number of insertions: the    *)
(* spec's "after E1..E51 the buffer is [E51, ..., E2]" for every length.  *)
(***************************************************************************)
TimelineIsRecentHistory == timeline = RecentFirst(history)
=============================================================================
