----------------------------- MODULE Reconciler -----------------------------
(***************************************************************************)
(* The dashboard's state reconciler (dashboard.js): the pending-queries    *)
(* list and state.allQueries, refreshed by fetches that complete in any    *)
(* order; the push handlers that re-pull them; approveQuery / rejectQuery  *)
(* with their role branch; the periodic refresh; navigation; the timeline. *)
(* The backend (not in this repository) is the environment: it intercepts  *)
(* queries, decides them, answers requests and publishes push frames,      *)
(* which reach the page only while it is subscribed.                       *)
(* Metrics are left out: no property tells their values apart, and        *)
(* loadMetrics / metrics:update change nothing else.                       *)
(***************************************************************************)
EXTENDS Naturals, Sequences, Bags, BagsExt, Timeline

CONSTANTS Queries,            \* query ids
          Role,               \* role of the logged-in user (API.getUser().role)
          MaxLoads,           \* bound on in-flight fetches of each kind
          MaxActions,         \* bound on in-flight approve/reject calls
          MaxPushes           \* bound on push frames not yet handled

ASSUME ReconcilerAssumption ==
  /\ Role \in {"ADMIN", "PEER"}
  /\ MaxLoads \in Nat \ {0}
  /\ MaxActions \in Nat
  /\ MaxPushes \in Nat

VARIABLES
  server,       \* the backend's status of each query ("NONE": not yet intercepted)
  pushes,       \* push frames sent to this page, in arrival order
  page,         \* state.currentPage
  allQueries,   \* state.allQueries, as the status shown for each id
  pendingShown, \* the ids rendered in #pending-list
  timeline,     \* state.timelineEvents (event types only)
  pendingReqs,  \* bag of in-flight API.getBlockedQueries() calls
  allReqs,      \* bag of in-flight API.getAllQueries() calls
  actions       \* bag of in-flight approve / reject / vote calls

vars == <<server, pushes, page, allQueries, pendingShown, timeline,
          pendingReqs, allReqs, actions>>

Status == {"NONE", "PENDING", "APPROVED", "REJECTED"}
Decided == {"APPROVED", "REJECTED"}
Pages == {"dashboard", "queries", "other"}   \* users, audit, settings: "other"
Verbs == {"approve", "reject"}
EventTypes == {"blocked", "approved", "rejected", "vote", "default"}

Nothing == [q \in Queries |-> "NONE"]        \* allQueries: []
PendingSet(st) == {q \in Queries : st[q] = "PENDING"}

\* A fetch is asked, or answered with the server's snapshot.
PendingCall == [st : {"asked", "ok"}, snap : SUBSET Queries]
AllCall == [st : {"asked", "ok"}, snap : [Queries -> Status]]
ActionCall == [q : Queries, verb : Verbs, reply : {"asked", "ok", "failed"}]
Push == [topic : {"blocked", "approval", "vote"}, q : Queries, d : Status]

AskPending == [st |-> "asked", snap |-> {}]
AskAll == [st |-> "asked", snap |-> Nothing]

Verdict(verb) == IF verb = "approve" THEN "APPROVED" ELSE "REJECTED"

\* loadPendingQueries() / loadAllQueries() when c holds: one more call in flight.
LoadPendingIf(c) ==
  /\ c => BagCardinality(pendingReqs) < MaxLoads
  /\ pendingReqs' = IF c THEN BagAdd(pendingReqs, AskPending) ELSE pendingReqs

LoadAllIf(c) ==
  /\ c => BagCardinality(allReqs) < MaxLoads
  /\ allReqs' = IF c THEN BagAdd(allReqs, AskAll) ELSE allReqs

\* The backend publishes frames; a page that is not subscribed misses them.
Broadcast(ps) ==
  \/ pushes' = pushes
  \/ /\ Len(pushes) + Len(ps) <= MaxPushes
     /\ pushes' = pushes \o ps

-----------------------------------------------------------------------------
(* showApp has just run navigateTo("dashboard"): one pending fetch out.    *)
Init ==
  /\ server \in [Queries -> {"NONE", "PENDING"}]
  /\ pushes = <<>>
  /\ page = "dashboard"
  /\ allQueries = Nothing
  /\ pendingShown = {}
  /\ timeline = <<>>
  /\ pendingReqs = SetToBag({AskPending})
  /\ allReqs = EmptyBag
  /\ actions = EmptyBag

(* Environment: the proxy intercepts a query; the backend publishes        *)
(* query:blocked.                                                          *)
Intercept(q) ==
  /\ server[q] = "NONE"
  /\ server' = [server EXCEPT ![q] = "PENDING"]
  /\ Broadcast(<<[topic |-> "blocked", q |-> q, d |-> "PENDING"]>>)
  /\ UNCHANGED <<page, allQueries, pendingShown, timeline,
                 pendingReqs, allReqs, actions>>

(* Environment: another reviewer decides a query; query:approval follows.  *)
ResolveElsewhere(q, d) ==
  /\ server[q] = "PENDING"
  /\ server' = [server EXCEPT ![q] = d]
  /\ Broadcast(<<[topic |-> "approval", q |-> q, d |-> d]>>)
  /\ UNCHANGED <<page, allQueries, pendingShown, timeline,
                 pendingReqs, allReqs, actions>>

(* The backend answers a fetch with its current state.                    *)
AnswerPending(r) ==
  /\ r \in BagToSet(pendingReqs)
  /\ r.st = "asked"
  /\ pendingReqs' = BagAdd(BagRemove(pendingReqs, r),
                           [st |-> "ok", snap |-> PendingSet(server)])
  /\ UNCHANGED <<server, pushes, page, allQueries, pendingShown, timeline,
                 allReqs, actions>>

AnswerAll(r) ==
  /\ r \in BagToSet(allReqs)
  /\ r.st = "asked"
  /\ allReqs' = BagAdd(BagRemove(allReqs, r), [st |-> "ok", snap |-> server])
  /\ UNCHANGED <<server, pushes, page, allQueries, pendingShown, timeline,
                 pendingReqs, actions>>

(* loadPendingQueries resumes: renderPendingList(queries).                 *)
DeliverPending(r) ==
  /\ r \in BagToSet(pendingReqs)
  /\ r.st = "ok"
  /\ pendingReqs' = BagRemove(pendingReqs, r)
  /\ pendingShown' = r.snap
  /\ UNCHANGED <<server, pushes, page, allQueries, timeline, allReqs, actions>>

(* The fetch rejects (network error, 5xx, 401): the catch block of         *)
(* loadPendingQueries only logs. A 401 also ends the session, which        *)
(* Connection models.                                                      *)
PendingFails(r) ==
  /\ r \in BagToSet(pendingReqs)
  /\ r.st = "asked"
  /\ pendingReqs' = BagRemove(pendingReqs, r)
  /\ UNCHANGED <<server, pushes, page, allQueries, pendingShown, timeline,
                 allReqs, actions>>

(* loadAllQueries resumes: state.allQueries = queries.                     *)
DeliverAll(r) ==
  /\ r \in BagToSet(allReqs)
  /\ r.st = "ok"
  /\ allReqs' = BagRemove(allReqs, r)
  /\ allQueries' = r.snap
  /\ UNCHANGED <<server, pushes, page, pendingShown, timeline, pendingReqs, actions>>

(* ... or its catch block renders an error row and keeps state.allQueries. *)
AllFails(r) ==
  /\ r \in BagToSet(allReqs)
  /\ r.st = "asked"
  /\ allReqs' = BagRemove(allReqs, r)
  /\ UNCHANGED <<server, pushes, page, allQueries, pendingShown, timeline,
                 pendingReqs, actions>>

(* navigateTo(page): the page-specific loads.                              *)
Navigate(p) ==
  /\ page' = p
  /\ LoadPendingIf(p = "dashboard")
  /\ LoadAllIf(p = "queries")
  /\ UNCHANGED <<server, pushes, allQueries, pendingShown, timeline, actions>>

\* A mutant: the interval callback no longer reloads the pending list.
IntervalTickNoReload ==
  /\ page = "dashboard"
  /\ LoadPendingIf(FALSE)
  /\ UNCHANGED <<server, pushes, page, allQueries, pendingShown, timeline,
                 allReqs, actions>>

(* The 15 s refresh interval of showApp; it does nothing off the dashboard.*)
IntervalTick ==
  /\ page = "dashboard"
  /\ LoadPendingIf(TRUE)
  /\ UNCHANGED <<server, pushes, page, allQueries, pendingShown, timeline,
                 allReqs, actions>>

(* The refresh button: refreshDashboard awaits the same two loads.         *)
RefreshClick ==
  /\ page = "dashboard"
  /\ LoadPendingIf(TRUE)
  /\ UNCHANGED <<server, pushes, page, allQueries, pendingShown, timeline,
                 allReqs, actions>>

(* approveQuery(id) / rejectQuery(id), up to the await: the buttons exist  *)
(* on the rendered pending list and on PENDING rows of the queries table.  *)
Click(q, verb) ==
  /\ \/ page = "dashboard" /\ q \in pendingShown
     \/ page = "queries" /\ allQueries[q] = "PENDING"
  /\ BagCardinality(actions) < MaxActions
  /\ actions' = BagAdd(actions, [q |-> q, verb |-> verb, reply |-> "asked"])
  /\ UNCHANGED <<server, pushes, page, allQueries, pendingShown, timeline,
                 pendingReqs, allReqs>>

(* The backend handles the call. An ADMIN's /api/approve or /api/reject    *)
(* decides a PENDING query; a PEER's /api/vote is recorded and may reach   *)
(* the quorum. The reply may still be lost after the call was applied. A   *)
(* query that is no longer PENDING, or a call that never arrives, fails.   *)
ServerAct(a) ==
  /\ a \in BagToSet(actions)
  /\ a.reply = "asked"
  /\ \/ /\ server[a.q] = "PENDING"
        /\ \E d \in IF Role = "PEER" THEN {"PENDING", Verdict(a.verb)}
                                     ELSE {Verdict(a.verb)} :
             /\ server' = [server EXCEPT ![a.q] = d]
             /\ Broadcast(
                  (IF Role = "PEER"
                     THEN <<[topic |-> "vote", q |-> a.q, d |-> "PENDING"]>>
                     ELSE <<>>)
                  \o (IF d = "PENDING" THEN <<>>
                      ELSE <<[topic |-> "approval", q |-> a.q, d |-> d]>>))
        /\ \E reply \in {"ok", "failed"} :
             actions' = BagAdd(BagRemove(actions, a), [a EXCEPT !.reply = reply])
     \/ /\ UNCHANGED <<server, pushes>>
        /\ actions' = BagAdd(BagRemove(actions, a), [a EXCEPT !.reply = "failed"])
  /\ UNCHANGED <<page, allQueries, pendingShown, timeline, pendingReqs, allReqs>>

(* approveQuery / rejectQuery resume after success: the local timeline     *)
(* entry, loadPendingQueries, loadMetrics, and loadAllQueries when the     *)
(* queries page is shown.                                                  *)
ActionSucceeded(a) ==
  /\ a \in BagToSet(actions)
  /\ a.reply = "ok"
  /\ actions' = BagRemove(actions, a)
  /\ timeline' = AddTimelineEvent(timeline,
                   IF a.verb = "approve" THEN "approved" ELSE "rejected")
  /\ LoadPendingIf(TRUE)
  /\ LoadAllIf(page = "queries")
  /\ UNCHANGED <<server, pushes, page, allQueries, pendingShown>>

(* ... or after an error: a toast only.                                    *)
ActionFailed(a) ==
  /\ a \in BagToSet(actions)
  /\ a.reply = "failed"
  /\ actions' = BagRemove(actions, a)
  /\ UNCHANGED <<server, pushes, page, allQueries, pendingShown, timeline,
                 pendingReqs, allReqs>>

(* Push handlers, run on the frame at the head of the arrival order.       *)
OnBlocked ==
  /\ pushes # <<>>
  /\ Head(pushes).topic = "blocked"
  /\ pushes' = Tail(pushes)
  /\ timeline' = AddTimelineEvent(timeline, "blocked")
  /\ LoadPendingIf(TRUE)
  /\ UNCHANGED <<server, page, allQueries, pendingShown, allReqs, actions>>

\* A mutant: the frame's status is recorded as the event type unmapped.
OnApprovalRawStatus ==
  /\ pushes # <<>>
  /\ Head(pushes).topic = "approval"
  /\ pushes' = Tail(pushes)
  /\ timeline' = AddTimelineEvent(timeline, Head(pushes).d)
  /\ LoadPendingIf(TRUE)
  /\ LoadAllIf(TRUE)
  /\ UNCHANGED <<server, page, allQueries, pendingShown, actions>>

OnApproval ==
  /\ pushes # <<>>
  /\ Head(pushes).topic = "approval"
  /\ pushes' = Tail(pushes)
  /\ timeline' = AddTimelineEvent(timeline,
                   IF Head(pushes).d = "APPROVED" THEN "approved" ELSE "rejected")
  /\ LoadPendingIf(TRUE)
  /\ LoadAllIf(TRUE)
  /\ UNCHANGED <<server, page, allQueries, pendingShown, actions>>

OnVote ==
  /\ pushes # <<>>
  /\ Head(pushes).topic = "vote"
  /\ pushes' = Tail(pushes)
  /\ timeline' = AddTimelineEvent(timeline, "vote")
  /\ LoadPendingIf(TRUE)
  /\ UNCHANGED <<server, page, allQueries, pendingShown, allReqs, actions>>

(* audit:log frames only add a timeline entry.                             *)
OnAuditLog ==
  /\ timeline' = AddTimelineEvent(timeline, "default")
  /\ UNCHANGED <<server, pushes, page, allQueries, pendingShown,
                 pendingReqs, allReqs, actions>>

Next ==
  \/ \E q \in Queries : Intercept(q)
  \/ \E q \in Queries, d \in Decided : ResolveElsewhere(q, d)
  \/ \E r \in BagToSet(pendingReqs) :
        AnswerPending(r) \/ DeliverPending(r) \/ PendingFails(r)
  \/ \E r \in BagToSet(allReqs) : AnswerAll(r) \/ DeliverAll(r) \/ AllFails(r)
  \/ \E p \in Pages : Navigate(p)
  \/ IntervalTick
  \/ RefreshClick
  \/ \E q \in Queries, verb \in Verbs : Click(q, verb)
  \/ \E a \in BagToSet(actions) :
        ServerAct(a) \/ ActionSucceeded(a) \/ ActionFailed(a)
  \/ OnBlocked \/ OnApproval \/ OnVote \/ OnAuditLog

Spec == Init /\ [][Next]_vars

(* The interval fires while the page is open; the backend is not           *)
(* unreachable forever; a resolved fetch resumes its continuation.         *)
FairSpec ==
  /\ Spec
  /\ SF_vars(IntervalTick)
  /\ SF_vars(\E r \in BagToSet(pendingReqs) : AnswerPending(r))
  /\ WF_vars(\E r \in BagToSet(pendingReqs) : DeliverPending(r))

-----------------------------------------------------------------------------
TypeOK ==
  /\ server \in [Queries -> Status]
  /\ pushes \in Seq(Push) /\ Len(pushes) <= MaxPushes
  /\ page \in Pages
  /\ allQueries \in [Queries -> Status]
  /\ pendingShown \in SUBSET Queries
  /\ timeline \in Seq(EventTypes) /\ Len(timeline) <= MaxTimeline
  /\ BagToSet(pendingReqs) \subseteq PendingCall
  /\ BagToSet(allReqs) \subseteq AllCall
  /\ BagToSet(actions) \subseteq ActionCall

\* How far a status has advanced: absent, pending, decided.
Rank(s) == CASE s = "NONE" -> 0 [] s = "PENDING" -> 1 [] OTHER -> 2

(***************************************************************************)
(* A query record the queries table shows never shows an earlier status  *)
(* than it showed before (spec: a query record's status only advances      *)
(* PENDING -> APPROVED/REJECTED/EXPIRED). loadAllQueries assigns whatever  *)
(* fetch completes last.                                                   *)
(***************************************************************************)
StatusNeverRegresses ==
  [][\A q \in Queries :
       allQueries'[q] # "NONE" => Rank(allQueries'[q]) >= Rank(allQueries[q])]_allQueries

(***************************************************************************)
(* Once the backend stops changing and the user stays on the dashboard,    *)
(* the pending list ends up showing exactly the pending queries, however   *)
(* the fetches were reordered and whichever push frames were missed: the   *)
(* 15 s interval is what repairs a stale list.                             *)
(***************************************************************************)
PendingConverges ==
  <>[](page = "dashboard") => <>[](pendingShown = PendingSet(server))
=============================================================================
