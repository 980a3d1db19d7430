---------------------------- MODULE PushTimeline ----------------------------
(***************************************************************************)
(* The push path of the dashboard: setupWebSocketHandlers registers bus    *)
(* callbacks whose bodies call addTimelineEvent, and api.js emits to them  *)
(* from the STOMP frame handlers.  The bus is EventBus (one event name);  *)
(* the callback at iter[idx] records an event of its own kind, so the     *)
(* timeline and its ghost history follow the order in which emit runs the *)
(* callbacks.                                                              *)
(***************************************************************************)
EXTENDS EventBus

CONSTANTS MaxTimeline,         \* MAX_TIMELINE
          MaxEvents            \* bound on the length of the ghost history

ASSUME PushBoundAssumption == MaxTimeline \in Nat \ {0}

VARIABLES timeline, history

Hist == INSTANCE TimelineHistory WITH Events <- Handlers

pushVars == <<vars, timeline, history>>

PushInit == Init /\ Hist!Init

(* A callback runs inside emit's forEach and calls addTimelineEvent.       *)
InvokeRecord == Invoke /\ Hist!Record(iter[idx])

PushNext ==
  \/ /\ \/ \E h \in Handlers : Register(h) \/ Unregister(h) \/ Reenter(h)
        \/ Emit
        \/ Finish
     /\ UNCHANGED <<timeline, history>>
  \/ InvokeRecord

PushSpec == PushInit /\ [][PushNext]_pushVars

\* Runs are cut when the ghost history reaches its bound.
HistoryBound == Len(history) < MaxEvents

(***************************************************************************)
(* The timeline addTimelineEvent keeps under emit's callbacks is the       *)
(* MaxTimeline most recent recorded events, newest first.                  *)
(***************************************************************************)
TimelineIsRecentHistory == Hist!TimelineIsRecentHistory
=============================================================================
