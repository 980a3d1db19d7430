-------------------------- MODULE PushTimelineProofs --------------------------
(***************************************************************************)
(* Proofs about the push path: emit's forEach over the listener array of   *)
(* api.js, with callbacks that call on/off and addTimelineEvent.           *)
(***************************************************************************)
EXTENDS PushTimeline, WellFoundedInduction, TLAPS

-----------------------------------------------------------------------------
(* Lemmas on off()'s filter loop (EventBus.Filtered).                      *)

\* The loop body of filter, for a prefix function g.
FilterStep(arr, h, g, i) ==
  IF i = 0 THEN <<>>
  ELSE IF arr[i] # h THEN Append(g[i - 1], arr[i]) ELSE g[i - 1]

\* g runs the loop up to index m.
FilterRuns(arr, h, g, m) == g = [i \in 0..m |-> FilterStep(arr, h, g, i)]

\* Least-element principle on the naturals.
LEMMA NatMin ==
  ASSUME NEW T \in SUBSET Nat, T # {}
  PROVE  \E m \in T : \A k \in T : ~(k < m)
<1>1. IsWellFoundedOn(OpToRel(<, Nat), Nat)
  BY NatLessThanWellFounded
<1>2. \E m \in T : \A k \in T : ~(<<k, m>> \in OpToRel(<, Nat))
  BY <1>1, WFMin
<1> QED BY <1>2 DEF OpToRel

\* For each prefix length m the loop of filter has a run up to m.
LEMMA FilterRunsExist ==
  ASSUME NEW S, NEW arr \in Seq(S), NEW h
  PROVE  \A m \in 0..Len(arr) : \E g : FilterRuns(arr, h, g, m)
<1> DEFINE T == {m \in 0..Len(arr) : ~\E g : FilterRuns(arr, h, g, m)}
<1> SUFFICES ASSUME T # {} PROVE FALSE
  OBVIOUS
<1>0. T \in SUBSET Nat
  OBVIOUS
<1>1. PICK m \in T : \A k \in T : ~(k < m)
  BY <1>0, NatMin
<1>2. CASE m = 0
  <2>1. FilterRuns(arr, h, [i \in 0..0 |-> <<>>], 0)
    BY DEF FilterRuns, FilterStep
  <2> QED BY <1>1, <1>2, <2>1
<1>3. CASE m # 0
  <2>1. m - 1 \in 0..Len(arr) /\ m - 1 \notin T
    BY <1>1, <1>3
  <2>2. PICK g : FilterRuns(arr, h, g, m - 1)
    BY <2>1
  <2> DEFINE g2 == [i \in 0..m |-> IF i < m THEN g[i] ELSE FilterStep(arr, h, g, m)]
  <2>3. FilterRuns(arr, h, g2, m)
    <3>1. \A i \in 0..m : g2[i] = FilterStep(arr, h, g2, i)
      <4> SUFFICES ASSUME NEW i \in 0..m PROVE g2[i] = FilterStep(arr, h, g2, i)
        OBVIOUS
      <4>1. i > 0 => g2[i - 1] = g[i - 1]
        BY <1>3
      <4>2. FilterStep(arr, h, g2, i) = FilterStep(arr, h, g, i)
        BY <4>1 DEF FilterStep
      <4>3. CASE i < m
        <5>1. g[i] = FilterStep(arr, h, g, i)
          BY <2>2, <4>3, <1>3 DEF FilterRuns
        <5> QED BY <4>2, <4>3, <5>1
      <4>4. CASE i = m
        BY <4>2, <4>4
      <4> QED BY <4>3, <4>4
    <3> QED BY <3>1 DEF FilterRuns
  <2> QED BY <1>1, <2>3
<1> QED BY <1>2, <1>3
\* Every partial result of the loop is a sequence over S no longer than i.
LEMMA FilterRunsType ==
  ASSUME NEW S, NEW arr \in Seq(S), NEW h, NEW m \in 0..Len(arr), NEW g,
         FilterRuns(arr, h, g, m)
  PROVE  \A i \in 0..m : g[i] \in Seq(S) /\ Len(g[i]) <= i
<1> DEFINE T == {i \in 0..m : ~(g[i] \in Seq(S) /\ Len(g[i]) <= i)}
<1> SUFFICES ASSUME T # {} PROVE FALSE
  OBVIOUS
<1>0. T \in SUBSET Nat
  OBVIOUS
<1>1. PICK i \in T : \A k \in T : ~(k < i)
  BY <1>0, NatMin
<1>2. g[i] = FilterStep(arr, h, g, i)
  BY DEF FilterRuns
<1>3. CASE i = 0
  <2>1. g[i] \in Seq(S) /\ Len(g[i]) <= i
    BY <1>2, <1>3 DEF FilterStep
  <2> QED BY <1>1, <2>1
<1>4. CASE i # 0
  <2>1. i - 1 \in 0..m /\ i - 1 \notin T
    BY <1>1, <1>4
  <2>2. g[i - 1] \in Seq(S) /\ Len(g[i - 1]) <= i - 1
    BY <2>1
  <2>3. arr[i] \in S
    BY <1>4
  <2>4. g[i] \in Seq(S) /\ Len(g[i]) <= i
    BY <1>2, <1>4, <2>2, <2>3 DEF FilterStep
  <2> QED BY <1>1, <2>4
<1> QED BY <1>3, <1>4

\* filter(cb => cb !== h) returns a sequence of callbacks no longer than arr.
LEMMA FilteredType ==
  ASSUME NEW S, NEW arr \in Seq(S), NEW h
  PROVE  Filtered(arr, h) \in Seq(S) /\ Len(Filtered(arr, h)) <= Len(arr)
<1> DEFINE n == Len(arr)
<1> DEFINE kept == CHOOSE k : k = [i \in 0..n |-> FilterStep(arr, h, k, i)]
<1>0. n \in 0..Len(arr)
  OBVIOUS
<1>1. \E g : FilterRuns(arr, h, g, n)
  BY <1>0, FilterRunsExist
<1>2. FilterRuns(arr, h, kept, n)
  BY <1>1 DEF FilterRuns
<1>3. Filtered(arr, h) = kept[n]
  BY DEF Filtered, FilterStep
<1>4. kept[n] \in Seq(S) /\ Len(kept[n]) <= n
  BY <1>2, FilterRunsType
<1> QED BY <1>3, <1>4
-----------------------------------------------------------------------------
\* Every variable holds a value of its kind.
TypeInv ==
  /\ TypeOK
  /\ timeline \in Seq(Handlers)
  /\ history \in Seq(Handlers)

(***************************************************************************)
(* While an emit runs, the array forEach walks still starts with the       *)
(* snapshot (on() may only push behind it, off() swaps in a new array),    *)
(* forEach fixed the snapshot's length, and the callbacks run so far are  *)
(* the first idx - 1 of it.                                                *)
(***************************************************************************)
ForEachInv ==
  emitting =>
    /\ len = Len(snap)
    /\ len <= Len(iter)
    /\ \A j \in 1..len : iter[j] = snap[j]
    /\ idx \in 1..(len + 1)
    /\ Len(called) = idx - 1
    /\ \A j \in 1..Len(called) : called[j] = snap[j]

\* Between emits, the last emit ran all of its snapshot.
IdleInv == ~emitting => called = snap

IInv ==
  /\ TypeInv
  /\ ForEachInv
  /\ IdleInv
  /\ TimelineIsRecentHistory

\* The addTimelineEvent lemma, read over the handler values.
TP == INSTANCE TimelineProofs WITH Events <- Handlers

LEMMA InitIInv == PushInit => IInv
<1> SUFFICES ASSUME PushInit PROVE IInv
  OBVIOUS
<1>1. TypeInv
  <2>1. emitting = FALSE /\ shared = FALSE
    BY DEF PushInit, Init
  <2>2. emitting \in BOOLEAN /\ shared \in BOOLEAN
    BY <2>1, Zenon
  <2>3. /\ listeners \in Seq(Handlers) /\ iter \in Seq(Handlers)
        /\ len \in Nat /\ idx \in Nat \ {0}
        /\ snap \in Seq(Handlers) /\ called \in Seq(Handlers)
        /\ timeline \in Seq(Handlers) /\ history \in Seq(Handlers)
    BY DEF PushInit, Init, Hist!Init
  <2> QED BY <2>2, <2>3 DEF TypeInv, TypeOK
<1>2. ~emitting /\ called = <<>> /\ snap = <<>>
  BY DEF PushInit, Init
<1>3. ForEachInv /\ IdleInv
  BY <1>2 DEF ForEachInv, IdleInv
<1>5. TimelineIsRecentHistory
  <2>1. MaxTimeline \in Nat \ {0}
    BY PushBoundAssumption
  <2> QED
  BY <2>1 DEF PushInit, Hist!Init, TimelineIsRecentHistory,
      Hist!TimelineIsRecentHistory, Hist!RecentFirst
<1> QED BY <1>1, <1>3, <1>5 DEF IInv

\* The parts of IInv that neither on() nor off() touches stay true.
LEMMA RegistrationKeeps ==
  ASSUME IInv,
         UNCHANGED <<emitting, len, idx, snap, called, timeline, history>>
  PROVE  IdleInv' /\ TimelineIsRecentHistory'
BY DEF IInv, IdleInv, TimelineIsRecentHistory,
       Hist!TimelineIsRecentHistory

(* on(event, h) pushes onto listeners[event]; if a forEach is walking that *)
(* same array it only grows behind the snapshot.                           *)
LEMMA OnIInv ==
  ASSUME IInv, NEW h \in Handlers, On(h), UNCHANGED <<timeline, history>>
  PROVE  IInv'
<1> USE DEF IInv, TypeInv, TypeOK
<1>1. iter' = iter \/ iter' = Append(iter, h)
  BY DEF On, Pushed
<1>2. /\ iter' \in Seq(Handlers)
      /\ Len(iter) <= Len(iter')
      /\ \A j \in 1..Len(iter) : iter'[j] = iter[j]
  <2>1. CASE iter' = iter
    BY <2>1
  <2>2. CASE iter' = Append(iter, h)
    BY <2>2
  <2> QED BY <1>1, <2>1, <2>2
<1>3. UNCHANGED <<emitting, shared, len, idx, snap, called>>
  BY DEF On
<1>4. listeners' \in Seq(Handlers)
  BY DEF On, Pushed
<1>5. TypeInv'
  BY <1>2, <1>3, <1>4
<1>6. ForEachInv'
  <2> SUFFICES ASSUME emitting' PROVE ForEachInv!2'
    BY DEF ForEachInv
  <2>1. emitting
    BY <1>3
  <2>2. ForEachInv!2
    BY <2>1 DEF ForEachInv
  <2>3. len' <= Len(iter') /\ \A j \in 1..len' : iter'[j] = iter[j]
    BY <1>2, <1>3, <2>2
  <2>4. \A j \in 1..len' : iter'[j] = snap'[j]
    BY <1>3, <2>2, <2>3
  <2> QED BY <1>3, <2>2, <2>3, <2>4
<1> QED BY <1>3, <1>5, <1>6, RegistrationKeeps

(* off(event, h) swaps in a filtered copy: the array forEach walks is      *)
(* left as it was.                                                          *)
LEMMA OffIInv ==
  ASSUME IInv, NEW h \in Handlers, Off(h), UNCHANGED <<timeline, history>>
  PROVE  IInv'
<1> USE DEF IInv, TypeInv, TypeOK
<1>1. listeners' \in Seq(Handlers)
  BY FilteredType DEF Off
<1>2. UNCHANGED <<emitting, iter, len, idx, snap, called>> /\ shared' = FALSE
  BY DEF Off
<1>3. TypeInv'
  BY <1>1, <1>2
<1>4. ForEachInv'
  BY <1>2 DEF ForEachInv
<1> QED BY <1>2, <1>3, <1>4, RegistrationKeeps
\* emit() starts a forEach over the current array: called is reset.
LEMMA EmitIInv ==
  ASSUME IInv, Emit, UNCHANGED <<timeline, history>>
  PROVE  IInv'
<1> USE DEF IInv, TypeInv, TypeOK
<1>1. emitting' = TRUE /\ shared' = TRUE
  BY DEF Emit
<1>2. /\ iter' = listeners /\ snap' = listeners /\ len' = Len(listeners)
      /\ idx' = 1 /\ called' = <<>> /\ listeners' = listeners
  BY DEF Emit
<1>3. TypeInv'
  <2>1. emitting' \in BOOLEAN /\ shared' \in BOOLEAN
    BY <1>1, Zenon
  <2> QED BY <1>2, <2>1
<1>4. ForEachInv'
  BY <1>2 DEF ForEachInv
<1>5. IdleInv'
  BY <1>1 DEF IdleInv
<1>6. TimelineIsRecentHistory'
  BY <1>2 DEF TimelineIsRecentHistory,
              Hist!TimelineIsRecentHistory
<1> QED BY <1>3, <1>4, <1>5, <1>6

(* forEach ends when idx passes the length it fixed: by then it has run    *)
(* every callback of the snapshot.                                         *)
LEMMA FinishIInv ==
  ASSUME IInv, Finish, UNCHANGED <<timeline, history>>
  PROVE  IInv'
<1> USE DEF IInv, TypeInv, TypeOK
<1>1. emitting /\ emitting' = FALSE
  BY DEF Finish
<1>2. idx > len /\ UNCHANGED <<listeners, iter, shared, len, idx, snap, called>>
  BY DEF Finish
<1>3. ForEachInv!2
  BY <1>1 DEF ForEachInv
<1>4. called = snap
  <2>1. Len(called) = Len(snap)
    BY <1>2, <1>3
  <2> QED BY <1>3, <2>1
<1>5. TypeInv'
  <2>1. emitting' \in BOOLEAN
    BY <1>1, Zenon
  <2> QED BY <1>2, <2>1
<1>6. ForEachInv' /\ IdleInv'
  BY <1>1, <1>2, <1>4 DEF ForEachInv, IdleInv
<1>7. TimelineIsRecentHistory'
  BY <1>2 DEF TimelineIsRecentHistory,
              Hist!TimelineIsRecentHistory
<1> QED BY <1>5, <1>6, <1>7
(* forEach runs the callback at index idx, which records its event with    *)
(* addTimelineEvent: that callback is the snapshot's entry idx, and it is   *)
(* now the newest event of the history and the head of the timeline.      *)
LEMMA InvokeRecordIInv ==
  ASSUME IInv, InvokeRecord
  PROVE  IInv'
<1> USE DEF IInv, TypeInv, TypeOK
<1> DEFINE e == iter[idx]
<1>1. /\ emitting /\ idx <= len
      /\ called' = Append(called, e) /\ idx' = idx + 1
      /\ UNCHANGED <<listeners, emitting, iter, shared, len, snap>>
  BY DEF InvokeRecord, Invoke
<1>2. /\ timeline' = Hist!AddTimelineEvent(timeline, e)
      /\ history' = Append(history, e)
  BY DEF InvokeRecord, Hist!Record
<1>3. ForEachInv!2
  BY <1>1 DEF ForEachInv
<1>4. e = snap[idx] /\ e \in Handlers
  BY <1>1, <1>3
<1>5. TypeInv'
  <2>1. timeline' \in Seq(Handlers)
    BY <1>2, <1>4, PushBoundAssumption DEF Hist!AddTimelineEvent
  <2> QED BY <1>1, <1>2, <1>4, <2>1
<1>6. ForEachInv'
  <2> SUFFICES ASSUME emitting' PROVE ForEachInv!2'
    BY DEF ForEachInv
  <2> QED BY <1>1, <1>3, <1>4
<1>7. IdleInv'
  BY <1>1 DEF IdleInv
<1>9. TimelineIsRecentHistory'
  <2>1. TP!AddTimelineEvent(TP!RecentFirst(history), e)
          = TP!RecentFirst(Append(history, e))
    BY <1>4, PushBoundAssumption, TP!AddKeepsRecent
  <2>2. /\ \A x, y : Hist!AddTimelineEvent(x, y) = TP!AddTimelineEvent(x, y)
        /\ \A x : Hist!RecentFirst(x) = TP!RecentFirst(x)
    BY DEF Hist!AddTimelineEvent, TP!AddTimelineEvent,
           Hist!RecentFirst, TP!RecentFirst
  <2>3. timeline = Hist!RecentFirst(history)
    BY DEF TimelineIsRecentHistory, Hist!TimelineIsRecentHistory
  <2> QED BY <1>2, <2>1, <2>2, <2>3
     DEF TimelineIsRecentHistory, Hist!TimelineIsRecentHistory
<1> QED BY <1>5, <1>6, <1>7, <1>9
LEMMA NextIInv == IInv /\ [PushNext]_pushVars => IInv'
<1> SUFFICES ASSUME IInv, [PushNext]_pushVars PROVE IInv'
  OBVIOUS
<1>1. ASSUME NEW h \in Handlers, Register(h) \/ Unregister(h) \/ Reenter(h),
             UNCHANGED <<timeline, history>>
      PROVE  IInv'
  <2>1. On(h) \/ Off(h)
    BY <1>1 DEF Register, Unregister, Reenter
  <2> QED BY <1>1, <2>1, OnIInv, OffIInv
<1>2. ASSUME Emit, UNCHANGED <<timeline, history>> PROVE IInv'
  BY <1>2, EmitIInv
<1>3. ASSUME Finish, UNCHANGED <<timeline, history>> PROVE IInv'
  BY <1>3, FinishIInv
<1>4. ASSUME InvokeRecord PROVE IInv'
  BY <1>4, InvokeRecordIInv
<1>5. CASE UNCHANGED pushVars
  BY <1>5 DEF pushVars, vars, IInv, TypeInv, TypeOK, ForEachInv, IdleInv,
              TimelineIsRecentHistory,
              Hist!TimelineIsRecentHistory
<1> QED BY <1>1, <1>2, <1>3, <1>4, <1>5 DEF PushNext

LEMMA PushSpecIInv == PushSpec => []IInv
BY InitIInv, NextIInv, PTL DEF PushSpec

\* The callbacks an emit has run are the first ones of its snapshot.
LEMMA CalledPrefix ==
  ASSUME IInv
  PROVE  /\ Len(called) <= Len(snap)
         /\ \A j \in 1..Len(called) : called[j] = snap[j]
<1> USE DEF IInv, TypeInv, TypeOK
<1>1. CASE emitting
  <2>1. ForEachInv!2
    BY <1>1 DEF ForEachInv
  <2> QED BY <2>1
<1>2. CASE ~emitting
  <2>1. called = snap
    BY <1>2 DEF IdleInv
  <2> QED BY <2>1
<1> QED BY <1>1, <1>2

(***************************************************************************)
(* For every bound on the listener array and every sequence of on/off     *)
(* calls from callers and from the callbacks themselves, emit's forEach   *)
(* invokes exactly the callbacks registered when emit was called, in       *)
(* order: a prefix of them while it runs, all of them once it ends.        *)
(***************************************************************************)
THEOREM EmitDeliversSnapshotHolds == PushSpec => []EmitDeliversSnapshot
<1>1. IInv => EmitDeliversSnapshot
  <2> SUFFICES ASSUME IInv PROVE EmitDeliversSnapshot
    OBVIOUS
  <2>1. /\ Len(called) <= Len(snap)
        /\ \A j \in 1..Len(called) : called[j] = snap[j]
    BY CalledPrefix
  <2>2. called = SubSeq(snap, 1, Len(called))
    BY <2>1 DEF IInv, TypeInv, TypeOK
  <2>3. ~emitting => called = snap
    BY DEF IInv, IdleInv
  <2> QED BY <2>1, <2>2, <2>3 DEF EmitDeliversSnapshot
<1> QED BY <1>1, PushSpecIInv, PTL

(***************************************************************************)
(* For every MAX_TIMELINE, the timeline addTimelineEvent keeps under the   *)
(* push callbacks is the MAX_TIMELINE most recent recorded events, newest *)
(* first.                                                                  *)
(***************************************************************************)
THEOREM TimelineRecentUnderPush == PushSpec => []TimelineIsRecentHistory
<1>1. IInv => TimelineIsRecentHistory
  BY DEF IInv
<1> QED BY <1>1, PushSpecIInv, PTL

=============================================================================
