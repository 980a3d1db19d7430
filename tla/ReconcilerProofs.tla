--------------------------- MODULE ReconcilerProofs ---------------------------
(***************************************************************************)
(* Type correctness of the dashboard's state reconciler, for every set of  *)
(* queries, role and bounds: whatever order fetches, actions and push      *)
(* frames complete in, every in-flight call, every frame and every status  *)
(* the page holds is of its kind, and the push queue and the timeline stay *)
(* within their caps.  TypeOK is inductive as it stands; the proof rests   *)
(* on lemmas about the bag operators the in-flight calls are kept in and   *)
(* about addTimelineEvent.                                                 *)
(***************************************************************************)
EXTENDS Reconciler, TLAPS

\* Adding a copy of x to a bag adds x to its support.
LEMMA BagAddSupport ==
  ASSUME NEW B, NEW x
  PROVE  BagToSet(BagAdd(B, x)) = BagToSet(B) \cup {x}
BY DEF BagAdd, BagToSet

\* Removing a copy of x from a bag never adds to its support.
LEMMA BagRemoveSupport ==
  ASSUME NEW B, NEW x
  PROVE  BagToSet(BagRemove(B, x)) \subseteq BagToSet(B)
BY DEF BagRemove, BagToSet

\* A fetch call replaced by its answer: the bag holds calls of kind T.
LEMMA BagReplaceType ==
  ASSUME NEW T, NEW B, BagToSet(B) \subseteq T, NEW x, NEW y \in T
  PROVE  BagToSet(BagAdd(BagRemove(B, x), y)) \subseteq T
BY BagAddSupport, BagRemoveSupport

(***************************************************************************)
(* addTimelineEvent keeps state.timelineEvents a sequence of event types   *)
(* no longer than MAX_TIMELINE.                                            *)
(***************************************************************************)
LEMMA AddTimelineEventType ==
  ASSUME NEW S, NEW tl \in Seq(S), NEW e \in S,
         MaxTimeline \in Nat \ {0}, Len(tl) <= MaxTimeline
  PROVE  /\ AddTimelineEvent(tl, e) \in Seq(S)
         /\ Len(AddTimelineEvent(tl, e)) <= MaxTimeline
<1> DEFINE u == <<e>> \o tl
<1>1. u \in Seq(S) /\ Len(u) = Len(tl) + 1
  OBVIOUS
<1>2. CASE Len(u) > MaxTimeline
  <2>1. SubSeq(u, 1, MaxTimeline) \in Seq(S)
        /\ Len(SubSeq(u, 1, MaxTimeline)) = MaxTimeline
    BY <1>1, <1>2
  <2> QED BY <1>2, <2>1 DEF AddTimelineEvent
<1>3. CASE ~(Len(u) > MaxTimeline)
  BY <1>1, <1>3 DEF AddTimelineEvent
<1> QED BY <1>2, <1>3
\* loadPendingQueries / loadAllQueries keep the fetch bags typed.
LEMMA LoadPendingIfType ==
  ASSUME NEW c, BagToSet(pendingReqs) \subseteq PendingCall, LoadPendingIf(c)
  PROVE  BagToSet(pendingReqs') \subseteq PendingCall
<1>1. AskPending \in PendingCall
  BY DEF AskPending, PendingCall
<1>2. CASE c
  BY <1>1, <1>2, BagAddSupport DEF LoadPendingIf
<1>3. CASE ~c
  BY <1>3 DEF LoadPendingIf
<1> QED BY <1>2, <1>3

LEMMA LoadAllIfType ==
  ASSUME NEW c, BagToSet(allReqs) \subseteq AllCall, LoadAllIf(c)
  PROVE  BagToSet(allReqs') \subseteq AllCall
<1>1. AskAll \in AllCall
  BY DEF AskAll, AllCall, Nothing, Status
<1>2. CASE c
  BY <1>1, <1>2, BagAddSupport DEF LoadAllIf
<1>3. CASE ~c
  BY <1>3 DEF LoadAllIf
<1> QED BY <1>2, <1>3

\* The backend's frames join the push queue only within MaxPushes.
LEMMA BroadcastType ==
  ASSUME NEW ps \in Seq(Push), pushes \in Seq(Push), Len(pushes) <= MaxPushes,
         Broadcast(ps)
  PROVE  pushes' \in Seq(Push) /\ Len(pushes') <= MaxPushes
<1>1. CASE pushes' = pushes
  BY <1>1
<1>2. CASE Len(pushes) + Len(ps) <= MaxPushes /\ pushes' = pushes \o ps
  BY <1>2
<1> QED BY <1>1, <1>2 DEF Broadcast
-----------------------------------------------------------------------------
LEMMA InitTypeOK == Init => TypeOK
<1> SUFFICES ASSUME Init PROVE TypeOK
  OBVIOUS
<1>1. BagToSet(pendingReqs) \subseteq PendingCall
  BY DEF Init, SetToBag, BagToSet, AskPending, PendingCall
<1>2. BagToSet(allReqs) = {} /\ BagToSet(actions) = {}
  BY DEF Init, EmptyBag, SetToBag, BagToSet
<1>3. server \in [Queries -> Status] /\ allQueries \in [Queries -> Status]
  BY DEF Init, Nothing, Status
<1>4. /\ pushes \in Seq(Push) /\ Len(pushes) <= MaxPushes
      /\ timeline \in Seq(EventTypes) /\ Len(timeline) <= MaxTimeline
  BY ReconcilerAssumption, TimelineBoundAssumption DEF Init
<1>5. page \in Pages /\ pendingShown \in SUBSET Queries
  BY DEF Init, Pages
<1> QED
  BY <1>1, <1>2, <1>3, <1>4, <1>5 DEF TypeOK

LEMMA NextTypeOK == TypeOK /\ [Next]_vars => TypeOK'
<1> SUFFICES ASSUME TypeOK, [Next]_vars PROVE TypeOK'
  OBVIOUS
<1> USE ReconcilerAssumption, TimelineBoundAssumption
<1>1. ASSUME NEW q \in Queries, Intercept(q) PROVE TypeOK'
  <2>1. <<[topic |-> "blocked", q |-> q, d |-> "PENDING"]>> \in Seq(Push)
    BY DEF Push, Status
  <2>2. pushes' \in Seq(Push) /\ Len(pushes') <= MaxPushes
    BY <1>1, <2>1, BroadcastType DEF Intercept, TypeOK
  <2> QED BY <1>1, <2>2 DEF Intercept, TypeOK, Status
<1>2. ASSUME NEW q \in Queries, NEW d \in Decided, ResolveElsewhere(q, d)
      PROVE TypeOK'
  <2>1. <<[topic |-> "approval", q |-> q, d |-> d]>> \in Seq(Push)
    BY DEF Push, Status, Decided
  <2>2. pushes' \in Seq(Push) /\ Len(pushes') <= MaxPushes
    BY <1>2, <2>1, BroadcastType DEF ResolveElsewhere, TypeOK
  <2> QED BY <1>2, <2>2 DEF ResolveElsewhere, TypeOK, Status, Decided
<1>3. ASSUME NEW r \in BagToSet(pendingReqs), AnswerPending(r) PROVE TypeOK'
  <2>1. [st |-> "ok", snap |-> PendingSet(server)] \in PendingCall
    BY DEF PendingCall, PendingSet
  <2>2. BagToSet(pendingReqs') \subseteq PendingCall
    BY <1>3, <2>1, BagReplaceType DEF AnswerPending, TypeOK
  <2> QED BY <1>3, <2>2 DEF AnswerPending, TypeOK
<1>4. ASSUME NEW r \in BagToSet(pendingReqs), DeliverPending(r) \/ PendingFails(r)
      PROVE TypeOK'
  <2>1. r.snap \subseteq Queries
    BY DEF TypeOK, PendingCall
  <2>2. BagToSet(pendingReqs') \subseteq PendingCall
    BY <1>4, BagRemoveSupport DEF DeliverPending, PendingFails, TypeOK
  <2> QED BY <1>4, <2>1, <2>2 DEF DeliverPending, PendingFails, TypeOK
<1>5. ASSUME NEW r \in BagToSet(allReqs), AnswerAll(r) PROVE TypeOK'
  <2>1. [st |-> "ok", snap |-> server] \in AllCall
    BY DEF AllCall, TypeOK
  <2>2. BagToSet(allReqs') \subseteq AllCall
    BY <1>5, <2>1, BagReplaceType DEF AnswerAll, TypeOK
  <2> QED BY <1>5, <2>2 DEF AnswerAll, TypeOK
<1>6. ASSUME NEW r \in BagToSet(allReqs), DeliverAll(r) \/ AllFails(r)
      PROVE TypeOK'
  <2>1. r.snap \in [Queries -> Status]
    BY DEF TypeOK, AllCall
  <2>2. BagToSet(allReqs') \subseteq AllCall
    BY <1>6, BagRemoveSupport DEF DeliverAll, AllFails, TypeOK
  <2> QED BY <1>6, <2>1, <2>2 DEF DeliverAll, AllFails, TypeOK
<1>7. ASSUME NEW p \in Pages, Navigate(p) PROVE TypeOK'
  <2>1. BagToSet(pendingReqs') \subseteq PendingCall
    BY <1>7, LoadPendingIfType DEF Navigate, TypeOK
  <2>2. BagToSet(allReqs') \subseteq AllCall
    BY <1>7, LoadAllIfType DEF Navigate, TypeOK
  <2> QED BY <1>7, <2>1, <2>2 DEF Navigate, TypeOK
<1>8. CASE IntervalTick \/ RefreshClick
  <2>1. BagToSet(pendingReqs') \subseteq PendingCall
    BY <1>8, LoadPendingIfType DEF IntervalTick, RefreshClick, TypeOK
  <2> QED BY <1>8, <2>1 DEF IntervalTick, RefreshClick, TypeOK
<1>9. ASSUME NEW q \in Queries, NEW verb \in Verbs, Click(q, verb) PROVE TypeOK'
  <2>1. [q |-> q, verb |-> verb, reply |-> "asked"] \in ActionCall
    BY DEF ActionCall
  <2>2. BagToSet(actions') \subseteq ActionCall
    BY <1>9, <2>1, BagAddSupport DEF Click, TypeOK
  <2> QED BY <1>9, <2>2 DEF Click, TypeOK
<1>10. ASSUME NEW a \in BagToSet(actions), ServerAct(a) PROVE TypeOK'
  <2>1. a \in ActionCall
    BY DEF TypeOK
  <2>2. UNCHANGED <<page, allQueries, pendingShown, timeline, pendingReqs, allReqs>>
    BY <1>10 DEF ServerAct
  <2>3. CASE /\ server[a.q] = "PENDING"
             /\ \E d \in IF Role = "PEER" THEN {"PENDING", Verdict(a.verb)}
                                          ELSE {Verdict(a.verb)} :
                  /\ server' = [server EXCEPT ![a.q] = d]
                  /\ Broadcast(
                       (IF Role = "PEER"
                          THEN <<[topic |-> "vote", q |-> a.q, d |-> "PENDING"]>>
                          ELSE <<>>)
                       \o (IF d = "PENDING" THEN <<>>
                           ELSE <<[topic |-> "approval", q |-> a.q, d |-> d]>>))
             /\ \E reply \in {"ok", "failed"} :
                  actions' = BagAdd(BagRemove(actions, a), [a EXCEPT !.reply = reply])
    <3>1. PICK d \in IF Role = "PEER" THEN {"PENDING", Verdict(a.verb)}
                                      ELSE {Verdict(a.verb)} :
                  /\ server' = [server EXCEPT ![a.q] = d]
                  /\ Broadcast(
                       (IF Role = "PEER"
                          THEN <<[topic |-> "vote", q |-> a.q, d |-> "PENDING"]>>
                          ELSE <<>>)
                       \o (IF d = "PENDING" THEN <<>>
                           ELSE <<[topic |-> "approval", q |-> a.q, d |-> d]>>))
      BY <2>3
    <3>2. d \in Status
      BY <3>1 DEF Verdict, Status
    <3>3. server' \in [Queries -> Status]
      BY <2>1, <3>1, <3>2 DEF TypeOK, ActionCall
    <3> DEFINE voteFrame == [topic |-> "vote", q |-> a.q, d |-> "PENDING"]
               approvalFrame == [topic |-> "approval", q |-> a.q, d |-> d]
               votes == IF Role = "PEER" THEN <<voteFrame>> ELSE <<>>
               approvals == IF d = "PENDING" THEN <<>> ELSE <<approvalFrame>>
    <3>4. voteFrame \in Push /\ approvalFrame \in Push
      BY <2>1, <3>2 DEF ActionCall, Push, Status
    <3>5. votes \in Seq(Push) /\ approvals \in Seq(Push)
      BY <3>4
    <3>6. votes \o approvals \in Seq(Push)
      BY <3>5
    <3>7. pushes' \in Seq(Push) /\ Len(pushes') <= MaxPushes
      BY <3>1, <3>6, BroadcastType DEF TypeOK
    <3>8. PICK reply \in {"ok", "failed"} :
               actions' = BagAdd(BagRemove(actions, a), [a EXCEPT !.reply = reply])
      BY <2>3
    <3>9. [a EXCEPT !.reply = reply] \in ActionCall
      BY <2>1 DEF ActionCall
    <3>10. BagToSet(actions') \subseteq ActionCall
      BY <3>8, <3>9, BagReplaceType DEF TypeOK
    <3> QED BY <2>2, <3>3, <3>7, <3>10 DEF TypeOK
  <2>4. CASE /\ UNCHANGED <<server, pushes>>
             /\ actions' = BagAdd(BagRemove(actions, a), [a EXCEPT !.reply = "failed"])
    <3>1. [a EXCEPT !.reply = "failed"] \in ActionCall
      BY <2>1 DEF ActionCall
    <3>2. BagToSet(actions') \subseteq ActionCall
      BY <2>4, <3>1, BagReplaceType DEF TypeOK
    <3> QED BY <2>2, <2>4, <3>2 DEF TypeOK
  <2> QED BY <1>10, <2>3, <2>4 DEF ServerAct
<1>11. ASSUME NEW a \in BagToSet(actions), ActionSucceeded(a) PROVE TypeOK'
  <2>1. (IF a.verb = "approve" THEN "approved" ELSE "rejected") \in EventTypes
    BY DEF EventTypes
  <2>2. timeline' \in Seq(EventTypes) /\ Len(timeline') <= MaxTimeline
    BY <1>11, <2>1, AddTimelineEventType DEF ActionSucceeded, TypeOK
  <2>3. BagToSet(pendingReqs') \subseteq PendingCall
    BY <1>11, LoadPendingIfType DEF ActionSucceeded, TypeOK
  <2>4. BagToSet(allReqs') \subseteq AllCall
    BY <1>11, LoadAllIfType DEF ActionSucceeded, TypeOK
  <2>5. BagToSet(actions') \subseteq ActionCall
    BY <1>11, BagRemoveSupport DEF ActionSucceeded, TypeOK
  <2> QED BY <1>11, <2>2, <2>3, <2>4, <2>5 DEF ActionSucceeded, TypeOK
<1>12. ASSUME NEW a \in BagToSet(actions), ActionFailed(a) PROVE TypeOK'
  <2>1. BagToSet(actions') \subseteq ActionCall
    BY <1>12, BagRemoveSupport DEF ActionFailed, TypeOK
  <2> QED BY <1>12, <2>1 DEF ActionFailed, TypeOK
<1>13. CASE OnBlocked \/ OnApproval \/ OnVote
  \* each handler consumes the head frame, records one event and re-pulls
  <2>1. pushes # <<>> /\ pushes' = Tail(pushes)
    BY <1>13 DEF OnBlocked, OnApproval, OnVote
  <2>2. pushes' \in Seq(Push) /\ Len(pushes') <= MaxPushes
    BY <2>1 DEF TypeOK
  <2>3. \E e \in EventTypes : timeline' = AddTimelineEvent(timeline, e)
    BY <1>13 DEF OnBlocked, OnApproval, OnVote, EventTypes
  <2>4. timeline' \in Seq(EventTypes) /\ Len(timeline') <= MaxTimeline
    BY <2>3, AddTimelineEventType DEF TypeOK
  <2>5. BagToSet(pendingReqs') \subseteq PendingCall
    BY <1>13, LoadPendingIfType DEF OnBlocked, OnApproval, OnVote, TypeOK
  <2>6. BagToSet(allReqs') \subseteq AllCall
    BY <1>13, LoadAllIfType DEF OnBlocked, OnApproval, OnVote, TypeOK
  <2> QED BY <1>13, <2>2, <2>4, <2>5, <2>6 DEF OnBlocked, OnApproval, OnVote, TypeOK
<1>14. CASE OnAuditLog
  <2>1. timeline' \in Seq(EventTypes) /\ Len(timeline') <= MaxTimeline
    BY <1>14, AddTimelineEventType DEF OnAuditLog, TypeOK, EventTypes
  <2> QED BY <1>14, <2>1 DEF OnAuditLog, TypeOK
<1>15. CASE UNCHANGED vars
  BY <1>15 DEF vars, TypeOK
<1> QED
  BY <1>1, <1>2, <1>3, <1>4, <1>5, <1>6, <1>7, <1>8, <1>9, <1>10, <1>11,
     <1>12, <1>13, <1>14, <1>15 DEF Next

(***************************************************************************)
(* For every set of queries, role and bounds: however fetches, approve /   *)
(* reject calls and push frames interleave and complete, the reconciler's  *)
(* state (state.allQueries, #pending-list, state.timelineEvents, the push  *)
(* queue and every in-flight call) keeps its type, the timeline stays      *)
(* within MAX_TIMELINE and the push queue within its bound.                *)
(***************************************************************************)
THEOREM TypeCorrect == Spec => []TypeOK
BY InitTypeOK, NextTypeOK, PTL DEF Spec
=============================================================================
