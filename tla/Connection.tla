----------------------------- MODULE Connection -----------------------------
(***************************************************************************)
(* The session lifecycle and the push-channel client of the Interceptor    *)
(* dashboard: the token kept in localStorage (api.js getToken/setToken/    *)
(* clearToken), the STOMP-over-SockJS manager (connectWebSocket,           *)
(* disconnectWebSocket, scheduleReconnect and the onConnect / onError /    *)
(* onclose callbacks it installs), and the dashboard handlers that drive   *)
(* it (init, handleLogin, showApp, handleLogout, showLogin, the           *)
(* auth:expired listener and the ws:connected / ws:disconnected listeners  *)
(* that paint the live indicator).                                         *)
(*                                                                         *)
(* A physical connection is a slot of Slots.  A slot is "free" when no    *)
(* socket with live callbacks occupies it: a socket torn down by a         *)
(* successful stompClient.disconnect() has its onclose detached and can    *)
(* never call back again, so its slot is reused.  The life of a socket:   *)
(*   "opening"    SockJS is still connecting (send() would throw);        *)
(*   "open"       SockJS is open, the STOMP CONNECT frame is sent;        *)
(*   "connected"  CONNECTED received, onConnect has run;                  *)
(*   "failing"    an ERROR frame arrived, the server is closing it.       *)
(* Timers are counted, not timed: reconnectTimer.pending is the number of *)
(* reconnect timers set and not yet fired or cleared, and                  *)
(* reconnectTimer.live says whether the module's handle still names one.  *)
(***************************************************************************)
EXTENDS Naturals

CONSTANTS
    Slots,              \* the sockets that can exist at one time
    NoSocket,           \* the value of stompClient when it is null
    MaxLogouts,         \* bound on handleLogout calls awaiting API.logout()
    MaxIntervals,       \* bound on live refresh intervals (setInterval)
    MaxFades,           \* bound on pending 500ms overlay-fade timeouts
    DisconnectMayThrow  \* whether stompClient.disconnect() throws while
                        \* SockJS is still connecting (stomp.js 2.x does)

ASSUME SlotsAssumption == NoSocket \notin Slots
ASSUME BoundsAssumption ==
    /\ MaxLogouts \in Nat \ {0}
    /\ MaxIntervals \in Nat \ {0}
    /\ MaxFades \in Nat \ {0}
ASSUME ThrowAssumption == DisconnectMayThrow \in BOOLEAN

VARIABLES
    token,          \* localStorage "interceptor_token" (and _user) present
    page,           \* which view the last showLogin/showApp painted
    overlayHidden,  \* the login overlay carries the class "hidden"
    fadeTimers,     \* showApp's pending setTimeout(hide overlay, 500)
    loginPending,   \* handleLogin is awaiting API.login
    logoutsPending, \* handleLogout calls awaiting API.logout()
    intervals,      \* live setInterval refreshers started by showApp
    refreshLive,    \* state.refreshInterval names a live interval
    sock,           \* slot -> life of the socket in it
    stompClient,    \* the module-level stompClient
    subs,           \* slot -> topic-subscription batches made on it
    reconnectTimer, \* [pending: pending reconnect timers, live: handle live]
    indicator       \* the #ws-indicator text

vars == <<token, page, overlayHidden, fadeTimers, loginPending,
          logoutsPending, intervals, refreshLive, sock, stompClient, subs,
          reconnectTimer, indicator>>

wsVars == <<sock, stompClient, subs, reconnectTimer, indicator>>

SockState == {"free", "opening", "open", "connected", "failing"}

TimerState == [pending : Nat, live : BOOLEAN]

-----------------------------------------------------------------------------
(* Mutant: clearTimeout decrements even when the handle's timer has     *)
(* already fired.                                                         *)
ClearTimeoutAlways(t) == [pending |-> t.pending - 1, live |-> FALSE]

(* clearTimeout(reconnectTimer): cancels the timer the handle names, if it *)
(* has not fired yet.                                                       *)
ClearTimeout(t) ==
    [pending |-> t.pending - (IF t.live THEN 1 ELSE 0), live |-> FALSE]

(* Mutant: scheduleReconnect sets a new timer without clearing the old.  *)
ScheduleReconnectNoClear(t) == [pending |-> t.pending + 1, live |-> TRUE]

(* scheduleReconnect: clear the handle's timer, then set a new one.        *)
ScheduleReconnect(t) ==
    [pending |-> ClearTimeout(t).pending + 1, live |-> TRUE]

(* Whether stompClient.disconnect() may throw for client c.  The code     *)
(* swallows the exception; the socket is then neither closed nor detached. *)
DisconnectThrows(c) ==
    IF c # NoSocket /\ sock[c] = "opening" /\ DisconnectMayThrow
    THEN BOOLEAN ELSE {FALSE}

(* The sockets after disconnecting client c, which threw or not.           *)
Released(f, c, threw, v) ==
    IF c = NoSocket \/ threw THEN f ELSE [f EXCEPT ![c] = v]

(* Mutant: disconnectWebSocket drops the reference without calling       *)
(* stompClient.disconnect(), so the old socket keeps its callbacks.       *)
DisconnectWebSocketNoClose(t) ==
    /\ stompClient' = NoSocket
    /\ reconnectTimer' = ClearTimeout(t)
    /\ UNCHANGED <<sock, subs, indicator>>

(* disconnectWebSocket(), from timer state t.                               *)
DisconnectWebSocket(t) ==
    \E threw \in DisconnectThrows(stompClient) :
        /\ sock' = Released(sock, stompClient, threw, "free")
        /\ subs' = Released(subs, stompClient, threw, 0)
        /\ stompClient' = NoSocket
        /\ reconnectTimer' = ClearTimeout(t)
        /\ UNCHANGED indicator

(* Mutant: connectWebSocket does not check for a token, so a retry       *)
(* scheduled before logout reconnects after it.                           *)
ConnectWebSocketNoTokenCheck(t) ==
    \E threw \in DisconnectThrows(stompClient) :
        LET sock1 == Released(sock, stompClient, threw, "free")
            subs1 == Released(subs, stompClient, threw, 0)
        IN \E s \in Slots :
             /\ sock1[s] = "free"
             /\ sock' = [sock1 EXCEPT ![s] = "opening"]
             /\ subs' = [subs1 EXCEPT ![s] = 0]
             /\ stompClient' = s
             /\ reconnectTimer' = ClearTimeout(t)
             /\ UNCHANGED indicator

(* connectWebSocket(), from timer state t: return without a token, else   *)
(* disconnect the old client and open a new socket; if the constructors   *)
(* throw, the catch block reports the loss and schedules a reconnect.     *)
ConnectWebSocket(t) ==
    IF ~token' THEN /\ reconnectTimer' = t
                    /\ UNCHANGED <<sock, stompClient, subs, indicator>>
    ELSE
    \E threw \in DisconnectThrows(stompClient) :
        LET sock1 == Released(sock, stompClient, threw, "free")
            subs1 == Released(subs, stompClient, threw, 0)
        IN \/ \E s \in Slots :
                 /\ sock1[s] = "free"
                 /\ sock' = [sock1 EXCEPT ![s] = "opening"]
                 /\ subs' = [subs1 EXCEPT ![s] = 0]
                 /\ stompClient' = s
                 /\ reconnectTimer' = ClearTimeout(t)
                 /\ UNCHANGED indicator
           \/ /\ sock' = sock1
              /\ subs' = subs1
              /\ stompClient' = NoSocket
              /\ reconnectTimer' = ScheduleReconnect(ClearTimeout(t))
              /\ indicator' = "Reconnecting"

(* showApp(): reveal the app, start the overlay fade, connect, load the   *)
(* dashboard and start the 15s refresh interval (the old handle, if any,  *)
(* is overwritten).                                                        *)
ShowApp ==
    /\ fadeTimers < MaxFades
    /\ intervals < MaxIntervals
    /\ page' = "app"
    /\ fadeTimers' = fadeTimers + 1
    /\ intervals' = intervals + 1
    /\ refreshLive' = TRUE
    /\ ConnectWebSocket(reconnectTimer)
    /\ UNCHANGED overlayHidden

(* showLogin(): show the login overlay (class "hidden" removed).          *)
ShowLogin ==
    /\ page' = "login"
    /\ overlayHidden' = FALSE
    /\ UNCHANGED <<fadeTimers, intervals, refreshLive>>

(* handleLogout() up to its await: disconnect, clear the refresh interval, *)
(* and send the logout request.                                            *)
StartLogout ==
    /\ logoutsPending < MaxLogouts
    /\ logoutsPending' = logoutsPending + 1
    /\ intervals' = intervals - (IF refreshLive THEN 1 ELSE 0)
    /\ refreshLive' = FALSE
    /\ DisconnectWebSocket(reconnectTimer)

-----------------------------------------------------------------------------
Init ==
    /\ token \in BOOLEAN
    /\ page = "boot"
    /\ overlayHidden = FALSE
    /\ fadeTimers = 0
    /\ loginPending = FALSE
    /\ logoutsPending = 0
    /\ intervals = 0
    /\ refreshLive = FALSE
    /\ sock = [s \in Slots |-> "free"]
    /\ stompClient = NoSocket
    /\ subs = [s \in Slots |-> 0]
    /\ reconnectTimer = [pending |-> 0, live |-> FALSE]
    /\ indicator = "Initial"

(* init(): show the app when a session is stored, else the login form.    *)
Boot ==
    /\ page = "boot"
    /\ UNCHANGED <<token, loginPending, logoutsPending>>
    /\ IF token THEN ShowApp
       ELSE ShowLogin /\ UNCHANGED wsVars

(* handleLogin: the form is submitted and API.login is awaited.           *)
LoginSubmit ==
    /\ page = "login"
    /\ ~overlayHidden
    /\ ~loginPending
    /\ loginPending' = TRUE
    /\ UNCHANGED <<token, page, overlayHidden, fadeTimers, logoutsPending,
                   intervals, refreshLive, wsVars>>

(* API.login answers: with a token it is stored and showApp runs,         *)
(* otherwise the error is shown.                                           *)
LoginReply ==
    /\ loginPending
    /\ loginPending' = FALSE
    /\ UNCHANGED logoutsPending
    /\ \/ token' = TRUE /\ ShowApp
       \/ UNCHANGED <<token, page, overlayHidden, fadeTimers, intervals,
                      refreshLive, wsVars>>

(* The logout button: handleLogout().                                      *)
LogoutClick ==
    /\ page = "app"
    /\ StartLogout
    /\ UNCHANGED <<token, page, overlayHidden, fadeTimers, loginPending>>

(* Some authenticated request of the app gets a 401: request() clears the *)
(* session and dispatches auth:expired, whose listener calls handleLogout. *)
AuthExpired ==
    /\ token
    /\ page = "app"
    /\ token' = FALSE
    /\ StartLogout
    /\ UNCHANGED <<page, overlayHidden, fadeTimers, loginPending>>

(* API.logout() settles (success or error): clearToken(), then showLogin. *)
LogoutDone ==
    /\ logoutsPending > 0
    /\ logoutsPending' = logoutsPending - 1
    /\ token' = FALSE
    /\ ShowLogin
    /\ UNCHANGED <<loginPending, wsVars>>

(* showApp's setTimeout(() => overlay.classList.add("hidden"), 500).      *)
FadeFire ==
    /\ fadeTimers > 0
    /\ fadeTimers' = fadeTimers - 1
    /\ overlayHidden' = TRUE
    /\ UNCHANGED <<token, page, loginPending, logoutsPending, intervals,
                   refreshLive, wsVars>>

(* The reconnect timer fires: connectWebSocket() if a token is stored.    *)
ReconnectFire ==
    /\ reconnectTimer.pending > 0
    /\ UNCHANGED <<token, page, overlayHidden, fadeTimers, loginPending,
                   logoutsPending, intervals, refreshLive>>
    /\ ConnectWebSocket([pending |-> reconnectTimer.pending - 1,
                         live |-> FALSE])

(* The page is reloaded: all script state is lost, localStorage is kept.  *)
Reload ==
    /\ page # "boot"
    /\ token' = token
    /\ page' = "boot"
    /\ overlayHidden' = FALSE
    /\ fadeTimers' = 0
    /\ loginPending' = FALSE
    /\ logoutsPending' = 0
    /\ intervals' = 0
    /\ refreshLive' = FALSE
    /\ sock' = [s \in Slots |-> "free"]
    /\ stompClient' = NoSocket
    /\ subs' = [s \in Slots |-> 0]
    /\ reconnectTimer' = [pending |-> 0, live |-> FALSE]
    /\ indicator' = "Initial"

-----------------------------------------------------------------------------
(* Socket s finishes the SockJS handshake and sends STOMP CONNECT.        *)
SockOpen(s) ==
    /\ sock[s] = "opening"
    /\ sock' = [sock EXCEPT ![s] = "open"]
    /\ UNCHANGED <<token, page, overlayHidden, fadeTimers, loginPending,
                   logoutsPending, intervals, refreshLive, stompClient, subs,
                   reconnectTimer, indicator>>

(* CONNECTED arrives on s and its onConnect runs: ws:connected, clear the *)
(* reconnect timer, subscribe the five topics on the module's stompClient *)
(* -- whichever client that is now.  On a client still opening the send  *)
(* throws, on null the call throws; either way nothing is subscribed.     *)
OnConnect(s) ==
    LET c == stompClient
        sock1 == [sock EXCEPT ![s] = "connected"]
    IN /\ sock[s] = "open"
       /\ sock' = sock1
       /\ indicator' = "Live"
       /\ reconnectTimer' = ClearTimeout(reconnectTimer)
       /\ subs' = IF c # NoSocket /\ sock1[c] \in {"open", "connected"}
                  THEN [subs EXCEPT ![c] = @ + 1]
                  ELSE subs
       /\ UNCHANGED <<token, page, overlayHidden, fadeTimers, loginPending,
                      logoutsPending, intervals, refreshLive, stompClient>>

(* An ERROR frame arrives on s: onError reports the loss and schedules a  *)
(* reconnect; the server then ends the session.                           *)
OnError(s) ==
    /\ sock[s] \in {"open", "connected"}
    /\ sock' = [sock EXCEPT ![s] = "failing"]
    /\ subs' = [subs EXCEPT ![s] = 0]
    /\ indicator' = "Reconnecting"
    /\ reconnectTimer' = ScheduleReconnect(reconnectTimer)
    /\ UNCHANGED <<token, page, overlayHidden, fadeTimers, loginPending,
                   logoutsPending, intervals, refreshLive, stompClient>>

(* Mutant: socket.onclose is not installed; a drop goes unnoticed.       *)
OnCloseNoRetry(s) ==
    /\ sock[s] # "free"
    /\ sock' = [sock EXCEPT ![s] = "free"]
    /\ subs' = [subs EXCEPT ![s] = 0]
    /\ UNCHANGED <<token, page, overlayHidden, fadeTimers, loginPending,
                   logoutsPending, intervals, refreshLive, stompClient,
                   indicator, reconnectTimer>>

(* Socket s closes (connection failed, dropped, or ended by the server):  *)
(* socket.onclose reports the loss and schedules a reconnect.             *)
OnClose(s) ==
    /\ sock[s] # "free"
    /\ sock' = [sock EXCEPT ![s] = "free"]
    /\ subs' = [subs EXCEPT ![s] = 0]
    /\ indicator' = "Reconnecting"
    /\ reconnectTimer' = ScheduleReconnect(reconnectTimer)
    /\ UNCHANGED <<token, page, overlayHidden, fadeTimers, loginPending,
                   logoutsPending, intervals, refreshLive, stompClient>>

Next ==
    \/ Boot \/ LoginSubmit \/ LoginReply \/ LogoutClick \/ AuthExpired
    \/ LogoutDone \/ FadeFire \/ ReconnectFire \/ Reload
    \/ \E s \in Slots : SockOpen(s) \/ OnConnect(s) \/ OnError(s) \/ OnClose(s)

Spec == Init /\ [][Next]_vars

(* Timers fire (weak fairness of ReconnectFire); the server is not        *)
(* unreachable forever: a socket that can infinitely often complete its   *)
(* SockJS or STOMP handshake eventually does (strong fairness).  The user *)
(* (login, logout, reload) and connection drops get no fairness.          *)
FairSpec ==
    /\ Spec
    /\ WF_vars(ReconnectFire)
    /\ \A s \in Slots : SF_vars(SockOpen(s)) /\ SF_vars(OnConnect(s))

-----------------------------------------------------------------------------
TypeOK ==
    /\ token \in BOOLEAN
    /\ page \in {"boot", "login", "app"}
    /\ overlayHidden \in BOOLEAN
    /\ fadeTimers \in 0..MaxFades
    /\ loginPending \in BOOLEAN
    /\ logoutsPending \in 0..MaxLogouts
    /\ intervals \in 0..MaxIntervals
    /\ refreshLive \in BOOLEAN
    /\ sock \in [Slots -> SockState]
    /\ stompClient \in Slots \cup {NoSocket}
    /\ subs \in [Slots -> Nat]
    /\ reconnectTimer \in TimerState
    /\ indicator \in {"Initial", "Live", "Reconnecting"}

(* The user is logged in and no logout is under way.                       *)
LoggedIn == page = "app" /\ token /\ logoutsPending = 0

(* The current client's socket is still alive (not failed, not closed).   *)
CurrentAlive ==
    stompClient # NoSocket /\ sock[stompClient] \in {"opening", "open", "connected"}

(* At most one reconnect timer is ever pending, for every interleaving of  *)
(* connect, disconnect, onError and onclose (scheduleReconnect clears the  *)
(* handle before setting it, and onError and onclose can both fire).      *)
TimerSingleton ==
    /\ reconnectTimer.pending <= 1
    /\ reconnectTimer.live => reconnectTimer.pending = 1

(* Each socket carries the five topic subscriptions at most once: a push  *)
(* is never delivered, and handled, twice. onConnect subscribes on the    *)
(* module's stompClient, which is a newer socket when the one that        *)
(* connected was orphaned by a disconnect() that threw.                   *)
SubscriptionsUnique == \A s \in Slots : subs[s] <= 1

(* While logged in, the client is never left with neither a live socket   *)
(* nor a pending reconnect: every loss the callbacks report schedules a   *)
(* retry, and only a successful onConnect clears it.                      *)
ReconnectArmed == LoggedIn => CurrentAlive \/ reconnectTimer.pending > 0

(* The current client is connected and carries the topic subscriptions.  *)
Subscribed ==
    stompClient # NoSocket /\ sock[stompClient] = "connected"
                           /\ subs[stompClient] >= 1

(* Retry forever: while logged in, the client eventually gets a connected *)
(* and subscribed socket (or the session ends first), however many        *)
(* handshakes fail and sockets drop on the way.                           *)
EventuallySubscribed == LoggedIn ~> (Subscribed \/ ~LoggedIn)

(* Once logout has finished and the login form is painted, nothing of the *)
(* old session keeps running (spec: clearing the credential must          *)
(* invalidate open connections and timers before logout reports          *)
(* success): no socket with live callbacks, no reconnect timer, no        *)
(* refresh interval.                                                      *)
LogoutQuiesces ==
    page = "login" =>
        /\ \A s \in Slots : sock[s] = "free"
        /\ reconnectTimer.pending = 0
        /\ intervals = 0

(* A reload, or a closed tab, while handleLogout awaits API.logout()     *)
(* does not bring the session back: the next page load finds no stored    *)
(* token (spec 6: the credential is cleared on logout; api.js logout()    *)
(* calls clearToken only after the logout request settles).               *)
LogoutSurvivesReload == [][Reload /\ logoutsPending > 0 => ~token']_vars

(* Whenever showLogin has painted the login view, the login overlay is    *)
(* visible, so the user can sign in again (showApp's 500ms fade timeout   *)
(* must not hide a login form painted after it).                          *)
LoginOverlayShown == page = "login" => ~overlayHidden

-----------------------------------------------------------------------------
(* The refinement mapping to ConnectionStatus: the status is read off the *)
(* module's stompClient and the life of its socket, a retry is pending    *)
(* when a reconnect timer is, and the credential is the stored token.     *)
PhaseOf == [opening |-> "Connecting", open |-> "Connecting",
            connected |-> "Connected", failing |-> "Disconnected",
            free |-> "Disconnected"]

ClientStatus ==
    IF stompClient = NoSocket THEN "Disconnected" ELSE PhaseOf[sock[stompClient]]

Abs == INSTANCE ConnectionStatus
         WITH status <- ClientStatus,
              retry <- reconnectTimer.pending > 0,
              credential <- token

(* The push client implements the spec's connection state machine: never *)
(* Disconnected -> Connected without a handshake, a retry pending only    *)
(* after a reported loss, onConnect and disconnect cancel it, connect is  *)
(* a no-op without a credential, and a fired retry re-reads the          *)
(* credential -- for every interleaving of the callbacks of connectWeb-   *)
(* Socket, the timers and the login, logout and reload handlers.         *)
ImplementsStatus == Abs!Spec
=============================================================================
