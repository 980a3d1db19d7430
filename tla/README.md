# Interceptor dashboard — TLA+ verification project

This directory models the browser side of the Interceptor operator console
(`src/src/main/resources/static/js/api.js` and `dashboard.js`): the session
token, the STOMP-over-SockJS push client with its reconnect loop, and the
dashboard handlers that drive them. It holds TLA+ modules, TLC configurations
that check them on small instances, and TLAPS proofs.

## 1. Inventory

### Components and their state

| Component | Source | State | Operations |
|---|---|---|---|
| Session store | api.js 9–33, 36–92 | `interceptor_token` / `interceptor_user` in localStorage (written and removed together) | `setToken`+`setUser` on login, `clearToken` on logout and on any 401 |
| Transport client | api.js 180–311 | `stompClient`, `reconnectTimer`, and every SockJS socket still holding callbacks | `connectWebSocket`, `disconnectWebSocket`, `scheduleReconnect`, reconnect timer, `onConnect` / `onError` / `socket.onclose` |
| Event bus | api.js 182–202 | `listeners`: event name → array of callbacks | `on`, `off`, `emit` (synchronous, each callback in its own try/catch) |
| Session lifecycle (dashboard) | dashboard.js 27–36, 165–257 | view shown, login overlay classes, `state.refreshInterval`, pending 500 ms fade timeouts | `init`, `handleLogin`, `handleLogout`, `showApp`, `showLogin`, `auth:expired` listener |
| Live indicator | dashboard.js 90–100 | `#ws-indicator` text | `ws:connected` / `ws:disconnected` listeners |
| State reconciler | dashboard.js 102–154, 262–313, 392–474, 528–574, 742–755, 847–861 | `state.metrics`, `state.allQueries`, `state.timelineEvents`, pending list and audit table, `state.auditSearchDebounce`, `state.currentPage` | `load*` fetches, push handlers, `approveQuery` / `rejectQuery`, debounced audit search, `addTimelineEvent` |
| Users page and modal | dashboard.js 576–623, 628–736, 893–901 | `#users-tbody`, `#modal-body` (the last HTML `openModal` put there), the overlay's `hidden` class, submit listeners on the create form, pending 50 ms binding timeouts | `loadUsers`, `showCreateUserModal` and its submit listener, `deleteUser`, `showVoteStatus`, `openModal`, `closeModal` |
| Config view, rendering, toasts, formatting | dashboard.js rest | DOM only | one request and one render each |

### How they interact

The dashboard calls the session store and the transport client directly.
`showApp` calls `connectWebSocket`, which reads the token; the transport's
callbacks call `emit`, which synchronously runs the dashboard's listeners
(indicator, timeline, reloads). The dashboard's fetches go through `request`,
whose 401 branch clears the token and dispatches `auth:expired`, whose listener
runs `handleLogout`, which disconnects the transport. Everything runs on one
event loop; the interleavings come from the awaits (`API.login`, `API.logout`,
every fetch), the timers (5 s reconnect, 15 s refresh, 500 ms overlay fade,
400 ms search debounce) and the socket callbacks, which arrive in any order.

### What is hard

* Callbacks of an old socket arriving after a new one was opened: `onConnect`
  reads the module-level `stompClient` and clears the single reconnect handle,
  whichever socket it belongs to.
* `stompClient.disconnect()` throwing (the code catches and ignores it): the
  socket then stays alive with its callbacks (an *orphan*).
* Two `handleLogout` chains, or a logout chain and a new login, overlapping
  across the `await API.logout()`.
* Timers that are never cancelled (the overlay fade) or whose handle is
  overwritten (the refresh interval).
* Fetch responses completing in a different order than they were issued.

### Properties that make each component correct

* Transport: at most one reconnect timer; while logged in, always a live
  socket or a pending retry; each socket subscribed at most once; eventually
  connected and subscribed.
* Session lifecycle: once logout completes nothing of the old session runs
  (no socket, no timer, no interval); the login form is visible whenever the
  login view is shown; the indicator tells the truth (not run: see the
  hazards in PROJECT.json).
* Reconciler: the timeline is the newest `MAX_TIMELINE` events, newest first;
  a displayed query status never goes back to PENDING; a stale search result
  never replaces a fresher one.
* Event bus: every handler registered at `emit` time runs once, in order,
  whatever the others throw.

## 2. Plan

1. **Connection** (done): session lifecycle + transport client + indicator,
   the system's only protocol with failure and retry. Proofs in
   **ConnectionProofs**.
2. **Reconciler**, **Timeline** / **TimelineHistory**, **AuditSearch**
   (done): fetches as request/answer/completion triples completing in any
   order, the push handlers, approve/reject with role branching, the
   timeline and the debounced audit search.
3. **EventBus** (done): `on`/`off`/`emit` with callbacks that throw or
   re-register during `emit` (the `forEach` snapshot semantics).
4. Refinement (done): the abstract connection state machine
   **ConnectionStatus** (the spec's Disconnected / Connecting / Connected,
   a pending retry, a stored credential) that `Connection` implements under
   a mapping from the current client's socket state, checked with
   `INSTANCE ... WITH` as a PROPERTY and proved in **ConnectionRefinement**.
5. **PushTimeline** (done): the bus composed with the timeline, as the push
   callbacks of `setupWebSocketHandlers` call `addTimelineEvent`.
6. **UserAdmin** (done): the users page and the shared modal.
7. Proofs (done): `ReconnectArmed` for every instance with
   `DisconnectMayThrow = FALSE` in **ConnectionSafetyProofs** (needs the
   invariant "every live socket is the current one");
   `DebounceOncePerBurst` in **AuditSearchProofs**, `CreateFormBound` in
   **UserAdminProofs**, the Reconciler's `TypeOK` in **ReconcilerProofs**,
   and the two push-path invariants in **PushTimelineProofs**.
8. Next: **Console**, composing Connection and Reconciler so that pushes are
   delivered per subscription (a duplicate subscription would show up as a
   duplicated timeline entry); the users table's freshness.

## 3. Modules

### Connection (`Connection.tla`)

Constants: `Slots` (sockets that may coexist), `NoSocket` (null), bounds
`MaxLogouts`, `MaxIntervals`, `MaxFades`, and `DisconnectMayThrow`.

| Variable | Code |
|---|---|
| `token` | localStorage `interceptor_token` / `interceptor_user` |
| `page`, `overlayHidden`, `fadeTimers` | `showApp` / `showLogin` and the overlay classes; showApp's 500 ms timeouts |
| `loginPending`, `logoutsPending` | `handleLogin` / `handleLogout` suspended at their await |
| `intervals`, `refreshLive` | live `setInterval`s and whether `state.refreshInterval` names one |
| `sock`, `stompClient`, `subs` | each socket with live callbacks, the module's `stompClient`, topic subscriptions per socket |
| `reconnectTimer` | number of pending reconnect timers and whether the handle names one |
| `indicator` | `#ws-indicator` text |

A socket slot is `free` when nothing can call back from it; the states
`opening` → `open` → `connected`, and `failing` after an ERROR frame, follow
SockJS and stomp.js. Actions: `Boot` (init), `LoginSubmit`/`LoginReply`
(handleLogin + showApp), `LogoutClick`, `AuthExpired` (401 → auth:expired →
handleLogout), `LogoutDone` (API.logout settles: clearToken + showLogin),
`FadeFire`, `ReconnectFire`, `Reload`, and per socket `SockOpen`, `OnConnect`,
`OnError`, `OnClose`. `connectWebSocket` is one operator used inside
`ShowApp` and `ReconnectFire`, covering the early return without a token, the
disconnect of the old client and the catch block.

Library behaviour the model assumes: `stompClient.disconnect()` (stomp.js 2.x)
sends DISCONNECT, then nulls `ws.onclose` and closes the socket; sending on a
SockJS socket that is still connecting throws, so with
`DisconnectMayThrow = TRUE` a disconnect of an `opening` socket may throw and
leave the socket untouched. The page's HTML (which stomp library is loaded) is
not in the repository, so both cases are checked.

### Timeline (`Timeline.tla`, `TimelineHistory.tla`)

`AddTimelineEvent(tl, e)` is `addTimelineEvent`: `unshift`, then
`slice(0, MAX_TIMELINE)` when longer. `TimelineHistory` is a harness that
records events one at a time with a ghost `history` and checks the buffer
against the reference `RecentFirst(history)`, the `MaxTimeline` most recent
events newest first.

### ConnectionStatus (`ConnectionStatus.tla`) and the refinement

The abstract machine of spec 4.1/4.3 with three variables: `status`
(Disconnected, Connecting, Connected), `retry` (one reconnect attempt
pending) and `credential`. Its actions are `Connect` (a no-op without a
credential; otherwise an `Attempt`: Connecting, or Disconnected with a retry
when the attempt fails at once), `SignIn`, `Handshake`, `Loss` (Disconnected
with exactly one retry), `Disconnect` (cancels the retry, possibly together
with clearing the credential), `SignOut` and `RetryFires` (re-reads the
credential when it fires).

`Connection` ends with the mapping: `status` is `Disconnected` when
`stompClient` is null and otherwise the phase of its socket (`opening` and
`open` are Connecting, `connected` is Connected, `failing` and `free` are
Disconnected); `retry` is "a reconnect timer is pending"; `credential` is
the stored token. `ImplementsStatus == Abs!Spec`. Callbacks of a socket that
is not `stompClient` map to stutters, which is why the mapping holds only
when every live socket is the current one: with `DisconnectMayThrow = TRUE`
an orphan's `onConnect` cancels the retry with no abstract step that allows
it (the `orphan_socket_stalls_reconnect` run shows the concrete effect).

### PushTimeline (`PushTimeline.tla`)

EXTENDS `EventBus` and instantiates `TimelineHistory` with the callbacks as
event kinds: `InvokeRecord` is `Invoke` together with `Record(iter[idx])`,
since every push callback of `setupWebSocketHandlers` (dashboard.js
102–147) calls `addTimelineEvent` synchronously inside `emit`'s `forEach`.
The other bus actions leave the timeline alone. `HistoryBound`, a state
constraint, cuts runs when the ghost history reaches `MaxEvents`.

### UserAdmin (`UserAdmin.tla`)

Constants: `Accounts`, `Self` (the signed-in user), bounds `MaxLoads`
(in-flight `getUsers`), `MaxCalls` (in-flight create, delete and
vote-status calls) and `MaxBinds` (pending 50 ms binding timeouts).

| Variable | Code |
|---|---|
| `page` | `state.currentPage` (`"users"` or any other page) |
| `server` | the backend's accounts (environment) |
| `table` | `#users-tbody`: rows of the last rendered answer, or the error row |
| `loads`, `calls` | bags of in-flight `getUsers` and `createUser` / `deleteUser` / `getVoteStatus` calls |
| `modalOpen`, `body` | the overlay's `hidden` class; what `#modal-body` holds (`none`, a create form, vote bars) |
| `handlers`, `binds` | submit listeners on the create form in `#modal-body`; pending `setTimeout(bind, 50)` |

`ShowCreateUserModal` is `openModal` (a fresh form, no listener) plus the
timeout; `BindFire` looks the form up when it fires and binds a listener if
`#modal-body` holds one. `Submit` runs every bound listener, each sending
`createUser`. `DeleteUser` keeps the self guard and the confirm.
`CreateDone` closes whatever modal is on screen and reloads, `DeleteDone`
reloads, `VoteDone` replaces the modal body with the vote bars. The backend
(`ServeCall`, spec-modelled) adds, removes or refuses (duplicate, missing,
or any error).

### Reconciler (`Reconciler.tla`)

Constants: `Queries`, `Role` (ADMIN or PEER), bounds `MaxLoads` (in-flight
fetches of each kind), `MaxActions`, `MaxPushes`, and `MaxTimeline`.

| Variable | Code |
|---|---|
| `server` | the backend's status of each query (environment) |
| `pushes` | STOMP frames received and not yet handled, in arrival order |
| `page` | `state.currentPage` (users/audit/settings collapsed to `"other"`) |
| `allQueries`, `pendingShown` | `state.allQueries`; the rendered `#pending-list` |
| `timeline` | `state.timelineEvents` (event types only) |
| `pendingReqs`, `allReqs`, `actions` | bags of pending `getBlockedQueries`, `getAllQueries` and approve/reject/vote calls |

A fetch is asked by the handler up to its `await` (`LoadPendingIf`,
`LoadAllIf`), answered by the backend with its state at that moment
(`AnswerPending`, `AnswerAll`), and completed by the continuation
(`DeliverPending`, `DeliverAll`) or rejected into the catch block
(`PendingFails`, `AllFails`). Answer and completion are separate steps, so
two fetches can be answered in one order and completed in the other.
Handlers: `Navigate`, `IntervalTick`, `RefreshClick`, `Click` (the
buttons exist only on rendered pending rows), `ActionSucceeded`,
`ActionFailed`, `OnBlocked`, `OnApproval`, `OnVote`, `OnAuditLog`. The
backend: `Intercept`, `ResolveElsewhere`, `ServerAct` (an ADMIN decides, a
PEER votes and may reach the quorum; the reply may be lost after the call
was applied); `Broadcast` publishes frames, which a page that is not
subscribed misses. Metrics are left out: `loadMetrics` and
`metrics:update` change only `state.metrics`, which no property reads.

### AuditSearch (`AuditSearch.tla`)

The `#audit-search` input handler (`Type`: clear the handle, set a new
400 ms timeout), the timeout (`DebounceFire`: `loadAuditLogs` with the box's
value at fire time), `navigateTo("audit")` (an unfiltered load), and the
fetches (`Answer`, `Deliver`, `Fail`), each stamped with its issue number.
`timers` counts the timeouts set and not fired or cleared; `burstFetches`
is a ghost counting debounced fetches since the last keystroke.

### EventBus (`EventBus.tla`)

One event name. `emit` is modelled step by step: `Emit` starts the
`forEach` over the array object `listeners[event]` names (`iter`) and fixes
its length; `Invoke` calls the element at the next index (a callback that
throws is caught, so the loop goes on either way); `Finish` ends it. `On`
pushes onto the current array, which is still `iter` unless an `Off` has
since replaced it by a filtered copy (`shared`). Callbacks may call `on` or
`off` while they run (`Reenter`); any caller may between emits
(`Register`, `Unregister`). `snap` and `called` are ghosts. `Filtered` is
`Array.prototype.filter` as the loop it runs: a function `kept` over the
prefix lengths, appending each element that is not the removed callback.
In this repository the only callbacks are those of `setupWebSocketHandlers`
and the indicator's, and none of them calls `on` or `off`; `API.off` has no
caller. `Reenter` and `Unregister` are kept because the bus is exported as
`window.API`, so the snapshot property covers any caller the page may get;
the run and the proof hold with them and without them.

## 4. Runs

The Connection runs use three slots as model values,
`MaxLogouts = MaxIntervals = MaxFades = 2`; the passing run checks the
liveness property and the refinement under `FairSpec`, so it uses no
symmetry (TLC does not check liveness soundly under symmetry), and the
violation runs keep symmetry. Three slots
let an orphan, the current socket and one more attempt coexist; two pending
logouts is the least that shows the stale-logout race; two intervals and
fades are what one re-login adds.

The Reconciler runs use one query, `MaxLoads = 2` (two fetches of a kind,
the least that can complete out of order), one action and one push frame in
flight, and `MaxTimeline = 1`; their `VIEW` leaves out the timeline, which
no guard reads (its contents are checked by `TimelineHistory`). The search
runs use the empty box and two names, three fetches. The push run uses two
callbacks, at most three registrations (duplicates included), a cap of two
and at most five recorded events, so eviction happens within one emit and
across emits. The users run uses two accounts (the signed-in one and one
other), two loads, two calls and two binding timeouts: two timeouts is the
least that lets two opens race their bindings, and two calls let one submit
of a doubly bound form send both.

| Run | Expect | Shows |
|---|---|---|
| connection_safety | pass | `TypeOK`, `ReconnectArmed`, `TimerSingleton`, `EventuallySubscribed` and `ImplementsStatus` (the refinement) with a non-throwing disconnect, under `FairSpec` |
| orphan_socket_stalls_reconnect | violation | `ReconnectArmed`: logout while the socket is opening (disconnect throws), log in again, the new socket fails, the orphan connects and clears the retry: logged in, indicator Live, no pushes, no retry |
| stale_logout_outlives_session | violation | `LogoutQuiesces`: logout clicked twice, first completes, user logs in, second completes: login page over a running socket and refresh interval |
| reload_resurrects_session | violation | `LogoutSurvivesReload`: boot logged in, click logout, reload while `API.logout()` is in flight: the token is still stored and the app comes back logged in |
| fade_timeout_hides_login | violation | `LoginOverlayShown`: a logout within 500 ms of showApp, then the fade timeout hides the login form |
| orphan_socket_double_subscribes | violation | `SubscriptionsUnique`: boot, logout while the socket is opening (disconnect throws), log in again; the new socket connects and subscribes, then the orphan connects and its `onConnect` subscribes the topics a second time on the new `stompClient`: every push is handled twice |
| pending_list_converges | pass | `TypeOK`, `PendingConverges` for a PEER, under `FairSpec` |
| queries_status_regresses | violation | `StatusNeverRegresses`: the Queries page is opened twice; the first fetch is answered PENDING, the query is approved elsewhere, the second is answered APPROVED and completes first; the first then shows PENDING again. The property is about records the table shows: a fetch answered before the query existed can also complete last and remove its row, which it does not count |
| search_debounce | pass | `DebounceOncePerBurst` |
| stale_search_overwrites | violation | `FreshestResultShown`: the audit page is opened (an unfiltered load), the user types a name and the search fires; the search's rows arrive first, then the unfiltered rows replace them while the box still holds the name |
| push_timeline | pass | `EmitDeliversSnapshot`, `TimelineIsRecentHistory`: with `on`/`off` during `emit`, each emit runs exactly its snapshot, and the timeline its callbacks fill is the newest recorded events, newest first |
| users_create_form | pass | `CreateFormBound`: a visible create form whose binding timeouts have fired has a listener |

Also reached but not a run of its own: `SubmitOnce` (one submit sends one
`createUser`) is violated in `UserAdmin` by `ShowCreateUserModal`,
`ShowCreateUserModal`, `BindFire`, `BindFire`: both timeouts find the
second form, so a submit sends two requests and the second fails as a
duplicate after the user was created.

Fairness (`FairSpec`): weak fairness of `ReconnectFire` (a `setTimeout`
fires); strong fairness of `SockOpen(s)` and `OnConnect(s)`, i.e. the server
is not unreachable forever. The user (login, logout, reload) and connection
drops get none.

Fairness of `Reconciler.FairSpec`: strong fairness of `IntervalTick` (the
15 s interval keeps firing while the session lasts; it is strong because
its bound on in-flight fetches may disable it now and then) and of
`AnswerPending` (the backend is not unreachable forever: fetches may fail,
but not all of them), weak fairness of `DeliverPending` (a resolved promise
runs its continuation). Pushes, the user and `ResolveElsewhere` get none.

## 5. Proofs

`ConnectionProofs.tla` proves, for every value of the constants satisfying the
module's ASSUMEs:

* `TypeCorrect`: `Spec => []TypeOK`;
* `TimerSingletonHolds`: `Spec => []TimerSingleton`.

Neither is inductive alone: `TypeOK` needs to know that `clearTimeout` only
decrements when a timer is pending, and that `clearInterval` only decrements
when the handle is live. The inductive invariant `IInv` is `TypeOK` plus
`TimerExact` (the count of pending reconnect timers is 1 exactly when the
handle is live) plus `RefreshCounted` (a live refresh handle is counted). The
lemmas `ClearTimeoutExact`, `ScheduleReconnectExact`, `ConnectOK` and
`DisconnectOK` give the effect of the shared operators once, and `NextIInv`
has one step per action.

`TimelineProofs.tla` proves `TimelineRecent`:
`Spec => []TimelineIsRecentHistory` in `TimelineHistory`, for every
`MaxTimeline > 0`. The invariant is inductive once the types are known; the
lemma `AddKeepsRecent` carries the argument: if `tl` is the recent view of
`h`, then `<<e>> \o tl` has `e` first and `tl[i-1] = h[n+2-i]` after it,
which is `Append(h, e)` read backwards, and the `slice` applies exactly when
`Len(h) >= MaxTimeline`, where both sides have `MaxTimeline` entries.

`ConnectionRefinement.tla` proves `Refinement`:
`~DisconnectMayThrow => (Spec => ImplementsStatus)`. The invariant it rests
on is `RInv == IInv /\ OnlyCurrentLive`, where `OnlyCurrentLive` says that
every socket with live callbacks is `stompClient`. It is needed because a
callback of any other socket would change the concrete state with no
abstract step to match; it holds because a non-throwing disconnect frees
the old socket before a new one is opened. The lemmas `ConnectMaps`,
`DisconnectMaps` and `StepMaps` map each action to an abstract action or a
stutter (e.g. `OnError` of the current socket to `Loss`, `OnConnect` to
`Handshake`, `LogoutDone` to `SignOut`, `ReconnectFire` to `RetryFires`, `Reload`
to `Disconnect`: the page dies with its sockets and timers),
and `Init` maps to `Abs!Init`.

`ConnectionSafetyProofs.tla` proves, under the same assumption,
`ReconnectArmedHolds` (`Spec => []ReconnectArmed`) from
`SInv == RInv /\ SubsBound /\ ReconnectArmed`, where `SubsBound` says
that a socket holds one subscription set when connected and none
otherwise. `ReconnectArmed` alone is not inductive: a callback of another
socket could clear the timer of the current one, which `OnlyCurrentLive`
excludes. `SubscriptionsUnique` is not proved: under the same assumption it
follows from `SubsBound` at once, since only an orphaned socket can subscribe
a second time. Orphans come only from a throwing disconnect, and with one
the property fails (the `orphan_socket_double_subscribes` run).

`AuditSearchProofs.tla` proves `DebounceOnce`:
`Spec => []DebounceOncePerBurst`, for every set of filters and every
`MaxFetches`. `burstFetches <= 1` alone is not inductive: a second pending
timeout could fire into the same burst. `DebounceInv` adds that at most one
400 ms timeout is pending (`timers \in 0..1`), that `searchTimeout` is live
exactly when one is (`handleLive <=> timers = 1`), and that a pending
timeout means no debounced fetch yet in this burst
(`burstFetches + timers <= 1`). A keystroke clears the live handle before
arming a new timeout, so the count stays at one; the timeout that fires
is the last one, so it is the burst's only fetch.

`UserAdminProofs.tla` proves `CreateFormBoundHolds`:
`Spec => []CreateFormBound`, for every set of accounts and every bound.
`CreateFormBound` is not inductive: a closed modal may hold a create form
with no listener yet while a binding timeout is pending, and closing and
reopening do not bind. `FormInv` drops the modal's visibility: whenever
`#modal-body` holds a create form and no binding timeout is pending, a
listener is bound. `showCreateUserModal` puts a new form there together
with a new pending timeout; the last timeout to fire on a create form binds
to it; a vote-status modal replaces the form.

`ReconcilerProofs.tla` proves `TypeCorrect`: `Spec => []TypeOK` for the
Reconciler, for every set of queries, role and bound. `TypeOK` is inductive
as it stands. The lemmas carry the operators: `BagAddSupport` and
`BagRemoveSupport` give the support of a bag after `BagAdd` and
`BagRemove`, `BagReplaceType` the typing of a fetch replaced by its answer,
`AddTimelineEventType` that `addTimelineEvent` keeps the timeline within
`MAX_TIMELINE`, and `LoadPendingIfType`, `LoadAllIfType` and
`BroadcastType` the effect of the shared load and broadcast operators.
`NextTypeOK` has one step per action; the `ServerAct` step follows the
role branch and names the vote and approval frames the backend publishes.

The provers and Booleans: a variable that holds a Boolean
(`handleLive`, `modalOpen`) is given its type in a step of its own,
proved by Zenon, and the arithmetic about the counters is left to SMT,
which does not find either kind of step when both are mixed.

`PushTimelineProofs.tla` proves, for every bound on the listener array and
every `MAX_TIMELINE` (`PushBoundAssumption`: a positive cap, as
`MAX_TIMELINE = 50`):

* `EmitDeliversSnapshotHolds`: `PushSpec => []EmitDeliversSnapshot`;
* `TimelineRecentUnderPush`: `PushSpec => []TimelineIsRecentHistory`.

Neither of them is inductive as it stands. `IInv` adds what `forEach`
guarantees (`ForEachInv`): while an emit runs, the iterated array still
starts with the snapshot, whose length forEach fixed, `idx` is within it,
and the callbacks run so far are its first `idx - 1` entries. It also adds
that between emits `called` is the whole snapshot (`IdleInv`), and the
timeline invariant itself. Each action has a lemma. `on()` only pushes behind the
snapshot. `off()` swaps in a fresh array, so `iter` is untouched. `Emit`
resets `called`. `Finish` comes at `idx = len + 1`, so `called = snap`.
`InvokeRecord` extends `called` by the snapshot's next entry, and
the step on the timeline is `TimelineProofs`' lemma `AddKeepsRecent`, used
through an instance.

`off()` needs `FilteredType`: the filtered array is a sequence of callbacks.
This is an induction over the array, which the library's induction theorems
cannot do here: they take the predicate as an operator parameter, which
none of the installed provers instantiates. The lemma is proved by a least
counterexample instead. `NatMin` is the least-element principle, from the
well-foundedness of `<` on `Nat`. `FilterRunsExist` and `FilterRunsType`
show that the loop has a run up to every prefix length, and that every
partial result is a sequence no longer than the prefix. `Filtered` was
first written with the builtin `SelectSeq`, which the provers cannot
expand; the loop form computes the same array.

Only model-checked: the liveness properties `EventuallySubscribed` and
`PendingConverges` (TLAPS does not reason about fairness and ENABLED), and
the invariants shown violated above.

## 6. Not modelled

Metrics (`loadMetrics`, `metrics:update`, `renderMetrics`) change only
`state.metrics`, which no property reads. The `ws:*` events in the event
bus are covered by `EventBus` for one event name; the model does not run
`emit` re-entrantly (a callback calling `emit`), which no callback in the
repository does. Rendering, toasts and formatting helpers are pure projections of state
(the `animateNumber` / `formatNumber` edge at 1000 is listed as a hazard).
The config view is one request and one render. The users table's freshness
(a stale `getUsers` answer rendered last) is the same unkeyed-response
pattern that `stale_search_overwrites` shows for the audit table; no run
states it for the users page. Frame payloads and JSON decoding are abstracted away in
Connection (each topic handler catches its own parse errors).
