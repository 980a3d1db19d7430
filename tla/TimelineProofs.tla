---------------------------- MODULE TimelineProofs ----------------------------
(***************************************************************************)
(* addTimelineEvent keeps exactly the MaxTimeline most recent events,      *)
(* newest first, for every cap and every sequence of insertions.           *)
(***************************************************************************)
EXTENDS TimelineHistory, TLAPS

\* The invariant is inductive once the types are known.
IInv == TypeOK /\ TimelineIsRecentHistory

(***************************************************************************)
(* One insertion: if tl is the recent view of h, then AddTimelineEvent(tl, *)
(* e) is the recent view of h with e appended.                             *)
(***************************************************************************)
LEMMA AddKeepsRecent ==
  ASSUME NEW S, NEW h \in Seq(S), NEW e \in S,
         MaxTimeline \in Nat \ {0}
  PROVE  AddTimelineEvent(RecentFirst(h), e) = RecentFirst(Append(h, e))
<1> DEFINE n == Len(h)
<1> DEFINE tl == RecentFirst(h)
<1> DEFINE u == <<e>> \o tl
<1> DEFINE k == IF n < MaxTimeline THEN n ELSE MaxTimeline
<1> USE DEF n, k
<1>1. /\ tl \in Seq(S)
      /\ Len(tl) = k
      /\ \A j \in 1..Len(tl) : tl[j] = h[n + 1 - j]
  <2>1. k \in 0..n
    OBVIOUS
  <2>2. tl = [j \in 1..k |-> h[n + 1 - j]]
    BY DEF RecentFirst
  <2>3. \A j \in 1..k : h[n + 1 - j] \in S
    BY <2>1
  <2>4. tl \in Seq(S)
    BY <2>1, <2>2, <2>3
  <2>5. Len(tl) = k
    BY <2>1, <2>2, <2>4
  <2>6. \A j \in 1..Len(tl) : tl[j] = h[n + 1 - j]
    BY <2>2, <2>5
  <2> QED BY <2>4, <2>5, <2>6
<1>2. /\ u \in Seq(S)
      /\ Len(u) = Len(tl) + 1
      /\ \A i \in 1..Len(u) : u[i] = IF i = 1 THEN e ELSE tl[i - 1]
  BY <1>1
<1>3. \A i \in 1..Len(u) : u[i] = Append(h, e)[n + 2 - i]
  <2> SUFFICES ASSUME NEW i \in 1..Len(u) PROVE u[i] = Append(h, e)[n + 2 - i]
    OBVIOUS
  <2>1. CASE i = 1
    BY <1>2, <2>1
  <2>2. CASE i # 1
    <3>1. i - 1 \in 1..Len(tl) /\ u[i] = tl[i - 1]
      BY <1>2, <2>2
    <3>2. tl[i - 1] = h[n + 2 - i] /\ n + 2 - i \in 1..n
      BY <1>1, <3>1
    <3> QED BY <3>1, <3>2
  <2> QED BY <2>1, <2>2
<1>4. CASE n >= MaxTimeline
  <2>1. AddTimelineEvent(tl, e) = SubSeq(u, 1, MaxTimeline)
    BY <1>1, <1>2, <1>4 DEF AddTimelineEvent
  <2>2. RecentFirst(Append(h, e))
          = [i \in 1..MaxTimeline |-> Append(h, e)[n + 2 - i]]
    BY <1>4 DEF RecentFirst
  <2>3. SubSeq(u, 1, MaxTimeline)
          = [i \in 1..MaxTimeline |-> Append(h, e)[n + 2 - i]]
    <3>1. Len(u) = MaxTimeline + 1
      BY <1>1, <1>2, <1>4
    <3>2. SubSeq(u, 1, MaxTimeline) = [i \in 1..MaxTimeline |-> u[i]]
      BY <3>1
    <3>3. \A i \in 1..MaxTimeline : u[i] = Append(h, e)[n + 2 - i]
      <4> SUFFICES ASSUME NEW i \in 1..MaxTimeline
                   PROVE  u[i] = Append(h, e)[n + 2 - i]
        OBVIOUS
      <4>1. i \in 1..Len(u)
        BY <3>1
      <4> QED BY <4>1, <1>3
    <3> QED BY <3>2, <3>3
  <2> QED BY <2>1, <2>2, <2>3
<1>5. CASE n < MaxTimeline
  <2>1. AddTimelineEvent(tl, e) = u
    BY <1>1, <1>2, <1>5 DEF AddTimelineEvent
  <2>2. RecentFirst(Append(h, e)) = [i \in 1..(n + 1) |-> Append(h, e)[n + 2 - i]]
    BY <1>5 DEF RecentFirst
  <2>3. u = [i \in 1..(n + 1) |-> Append(h, e)[n + 2 - i]]
    <3>1. Len(u) = n + 1 /\ u = [i \in 1..Len(u) |-> u[i]]
      BY <1>1, <1>2, <1>5
    <3> QED BY <3>1, <1>3
  <2> QED BY <2>1, <2>2, <2>3
<1> QED BY <1>4, <1>5

LEMMA InitIInv == Init => IInv
BY TimelineBoundAssumption DEF Init, IInv, TypeOK, TimelineIsRecentHistory, RecentFirst

LEMMA NextIInv == IInv /\ [Next]_vars => IInv'
<1> SUFFICES ASSUME IInv, [Next]_vars PROVE IInv'
  OBVIOUS
<1> USE TimelineBoundAssumption
<1>1. ASSUME NEW e \in Events, Record(e) PROVE IInv'
  <2>1. history' \in Seq(Events)
    BY <1>1 DEF IInv, TypeOK, Record
  <2>2. timeline' = RecentFirst(history')
    BY <1>1, AddKeepsRecent DEF IInv, TypeOK, Record, TimelineIsRecentHistory
  <2>3. timeline' \in Seq(Events)
    BY <2>1, <2>2 DEF RecentFirst
  <2> QED BY <2>1, <2>2, <2>3 DEF IInv, TypeOK, TimelineIsRecentHistory
<1>2. CASE UNCHANGED vars
  BY <1>2 DEF IInv, TypeOK, TimelineIsRecentHistory, vars
<1> QED BY <1>1, <1>2 DEF Next

(***************************************************************************)
(* For every cap and every run of insertions, state.timelineEvents is the  *)
(* MaxTimeline most recent events, newest first (addTimelineEvent).        *)
(***************************************************************************)
THEOREM TimelineRecent == Spec => []TimelineIsRecentHistory
<1>1. IInv => TimelineIsRecentHistory
  BY DEF IInv
<1> QED BY <1>1, InitIInv, NextIInv, PTL DEF Spec
=============================================================================
