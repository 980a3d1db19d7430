---------------------------- MODULE AuditSearch ----------------------------
(***************************************************************************)
(* The audit page's search (dashboard.js): the input handler that restarts *)
(* a 400 ms debounce timer, the timer that calls loadAuditLogs with the    *)
(* box's value, navigateTo("audit") that calls it with no filter, and the  *)
(* fetches, which complete in any order and each render the table.         *)
(***************************************************************************)
EXTENDS Naturals, Bags, BagsExt

CONSTANTS Filters,            \* trimmed search-box values; NoFilter is the empty box
          NoFilter,
          MaxFetches          \* bound on the number of fetches issued in a run

ASSUME SearchAssumption ==
  /\ NoFilter \in Filters
  /\ MaxFetches \in Nat

VARIABLES
  page,         \* state.currentPage is "audit" or another page
  box,          \* the value of #audit-search
  timers,       \* debounce timeouts set and not yet fired or cleared
  handleLive,   \* state.auditSearchDebounce names one of them
  fetches,      \* bag of in-flight audit fetches: filter, issue number, state
  issued,       \* number of fetches issued so far (gives each its issue number)
  shown,        \* what #audit-tbody shows: issue number and filter, or the error row
  burstFetches  \* ghost: debounce fetches issued since the last keystroke

vars == <<page, box, timers, handleLive, fetches, issued, shown, burstFetches>>

Fetch == [filter : Filters, gen : Nat, st : {"asked", "ok"}]
Shown == [gen : Nat, filter : Filters, ok : BOOLEAN]

\* loadAuditLogs(filter) up to its await: one more fetch in flight.
LoadAuditLogs(f) ==
  /\ issued < MaxFetches
  /\ issued' = issued + 1
  /\ fetches' = BagAdd(fetches, [filter |-> f, gen |-> issued + 1, st |-> "asked"])

Init ==
  /\ page = "other"
  /\ box = NoFilter
  /\ timers = 0
  /\ handleLive = FALSE
  /\ fetches = EmptyBag
  /\ issued = 0
  /\ shown = [gen |-> 0, filter |-> NoFilter, ok |-> TRUE]
  /\ burstFetches = 0

(* navigateTo(p): only "audit" loads the logs, unfiltered, whatever the    *)
(* box holds.                                                              *)
Navigate(p) ==
  /\ page' = p
  /\ IF p = "audit" THEN LoadAuditLogs(NoFilter) ELSE UNCHANGED <<fetches, issued>>
  /\ UNCHANGED <<box, timers, handleLive, shown, burstFetches>>

\* A mutant: the input handler sets a new timeout without clearing the old.
TypeNoClear(v) ==
  /\ page = "audit"
  /\ box' = v
  /\ timers' = timers + 1
  /\ handleLive' = TRUE
  /\ burstFetches' = 0
  /\ UNCHANGED <<page, fetches, issued, shown>>

(* The input event: clearTimeout(state.auditSearchDebounce), then a new    *)
(* 400 ms timeout whose handle replaces it.                                *)
Type(v) ==
  /\ page = "audit"
  /\ box' = v
  /\ timers' = (IF handleLive THEN timers - 1 ELSE timers) + 1
  /\ handleLive' = TRUE
  /\ burstFetches' = 0
  /\ UNCHANGED <<page, fetches, issued, shown>>

(* A debounce timeout fires (the oldest first) and calls                   *)
(* loadAuditLogs(e.target.value.trim()): the box's value now.              *)
DebounceFire ==
  /\ timers > 0
  /\ timers' = timers - 1
  /\ handleLive' = (handleLive /\ timers > 1)
  /\ LoadAuditLogs(box)
  /\ burstFetches' = burstFetches + 1
  /\ UNCHANGED <<page, box, shown>>

(* The backend answers getAuditLogs / getAuditLogsByUser(filter).          *)
Answer(f) ==
  /\ f.st = "asked"
  /\ fetches' = BagAdd(BagRemove(fetches, f), [f EXCEPT !.st = "ok"])
  /\ UNCHANGED <<page, box, timers, handleLive, issued, shown, burstFetches>>

(* loadAuditLogs resumes: renderAuditTable(logs).                          *)
Deliver(f) ==
  /\ f.st = "ok"
  /\ fetches' = BagRemove(fetches, f)
  /\ shown' = [gen |-> f.gen, filter |-> f.filter, ok |-> TRUE]
  /\ UNCHANGED <<page, box, timers, handleLive, issued, burstFetches>>

(* ... or the fetch rejects and the catch block renders the error row.     *)
Fail(f) ==
  /\ f.st = "asked"
  /\ fetches' = BagRemove(fetches, f)
  /\ shown' = [gen |-> f.gen, filter |-> f.filter, ok |-> FALSE]
  /\ UNCHANGED <<page, box, timers, handleLive, issued, burstFetches>>

Next ==
  \/ \E p \in {"audit", "other"} : Navigate(p)
  \/ \E v \in Filters : Type(v)
  \/ DebounceFire
  \/ \E f \in BagToSet(fetches) : Answer(f) \/ Deliver(f) \/ Fail(f)

Spec == Init /\ [][Next]_vars

-----------------------------------------------------------------------------
TypeOK ==
  /\ page \in {"audit", "other"}
  /\ box \in Filters
  /\ timers \in Nat
  /\ handleLive \in BOOLEAN
  /\ BagToSet(fetches) \subseteq Fetch
  /\ issued \in 0..MaxFetches
  /\ shown \in Shown
  /\ burstFetches \in Nat

(***************************************************************************)
(* A burst of keystrokes causes at most one debounced fetch: after the     *)
(* last keystroke only one 400 ms timeout is still set (spec: inputs at 0, *)
(* 100 and 300 ms give exactly one fetch).                                 *)
(***************************************************************************)
DebounceOncePerBurst == burstFetches <= 1

(***************************************************************************)
(* The rows the table shows are never replaced by the rows of an earlier   *)
(* fetch for another filter (spec: a stale search result that resolves    *)
(* late must not overwrite a fresher one). loadAuditLogs renders whichever *)
(* response completes, whatever was issued after it.                       *)
(***************************************************************************)
FreshestResultShown ==
  [][/\ shown.ok /\ shown'.ok /\ shown'.gen < shown.gen
     => shown'.filter = shown.filter]_shown
=============================================================================
