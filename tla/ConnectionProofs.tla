-------------------------- MODULE ConnectionProofs --------------------------
(***************************************************************************)
(* Proofs about Connection for every value of its constants: the type     *)
(* invariant and the single-reconnect-timer property.  Neither is         *)
(* inductive alone; both follow from IInv, which adds that the count of   *)
(* pending reconnect timers is exactly the liveness of the handle and     *)
(* that a live refresh handle is counted among the live intervals.        *)
(***************************************************************************)
EXTENDS Connection, TLAPS

(* A timer state in which the handle names a pending timer exactly when   *)
(* one is pending.                                                         *)
TimerExact(t) ==
    /\ t \in TimerState
    /\ t.pending = IF t.live THEN 1 ELSE 0

(* A live state.refreshInterval handle is one of the live intervals.     *)
RefreshCounted == refreshLive => intervals >= 1

IInv ==
    /\ TypeOK
    /\ TimerExact(reconnectTimer)
    /\ RefreshCounted

-----------------------------------------------------------------------------
(* clearTimeout on an exact timer state leaves none pending.              *)
LEMMA ClearTimeoutExact ==
    ASSUME NEW t, TimerExact(t)
    PROVE  /\ ClearTimeout(t) = [pending |-> 0, live |-> FALSE]
           /\ TimerExact(ClearTimeout(t))
BY DEF TimerExact, ClearTimeout, TimerState

(* scheduleReconnect on an exact timer state leaves exactly the new one.  *)
LEMMA ScheduleReconnectExact ==
    ASSUME NEW t, TimerExact(t)
    PROVE  /\ ScheduleReconnect(t) = [pending |-> 1, live |-> TRUE]
           /\ TimerExact(ScheduleReconnect(t))
BY DEF TimerExact, ScheduleReconnect, ClearTimeout, TimerState

(* The fired timer leaves an exact state behind.                          *)
LEMMA FiredExact ==
    ASSUME NEW t, TimerExact(t), t.pending > 0
    PROVE  TimerExact([pending |-> t.pending - 1, live |-> FALSE])
BY DEF TimerExact, TimerState

(* Releasing a client keeps a function in its function space.            *)
LEMMA ReleasedType ==
    ASSUME NEW S, NEW T, NEW f \in [Slots -> T], NEW c \in Slots \cup {NoSocket},
           NEW threw, NEW v \in T
    PROVE  Released(f, c, threw, v) \in [Slots -> T]
BY DEF Released

(* The connection variables that TypeOK and TimerExact constrain.         *)
WsOK ==
    /\ sock \in [Slots -> SockState]
    /\ stompClient \in Slots \cup {NoSocket}
    /\ subs \in [Slots -> Nat]
    /\ TimerExact(reconnectTimer)
    /\ indicator \in {"Initial", "Live", "Reconnecting"}

(* disconnectWebSocket preserves the connection variables' invariant.    *)
LEMMA DisconnectOK ==
    ASSUME WsOK, NEW t, TimerExact(t), DisconnectWebSocket(t)
    PROVE  WsOK'
<1>1. PICK threw \in DisconnectThrows(stompClient) :
            /\ sock' = Released(sock, stompClient, threw, "free")
            /\ subs' = Released(subs, stompClient, threw, 0)
            /\ stompClient' = NoSocket
            /\ reconnectTimer' = ClearTimeout(t)
            /\ UNCHANGED indicator
  BY DEF DisconnectWebSocket
<1>2. sock' \in [Slots -> SockState]
  BY <1>1, ReleasedType DEF WsOK, SockState
<1>3. subs' \in [Slots -> Nat]
  BY <1>1, ReleasedType DEF WsOK
<1>4. TimerExact(reconnectTimer')
  BY <1>1, ClearTimeoutExact
<1>. QED
  BY <1>1, <1>2, <1>3, <1>4 DEF WsOK

(* connectWebSocket preserves the connection variables' invariant.       *)
LEMMA ConnectOK ==
    ASSUME WsOK, NEW t, TimerExact(t), ConnectWebSocket(t)
    PROVE  WsOK'
<1>1. CASE ~token'
  BY <1>1 DEF ConnectWebSocket, WsOK
<1>2. CASE token'
  <2>1. PICK threw \in DisconnectThrows(stompClient) :
          LET sock1 == Released(sock, stompClient, threw, "free")
              subs1 == Released(subs, stompClient, threw, 0)
          IN \/ \E s \in Slots :
                   /\ sock1[s] = "free"
                   /\ sock' = [sock1 EXCEPT ![s] = "opening"]
                   /\ subs' = [subs1 EXCEPT ![s] = 0]
                   /\ stompClient' = s
                   /\ reconnectTimer' = ClearTimeout(t)
                   /\ UNCHANGED indicator
             \/ /\ sock' = sock1
                /\ subs' = subs1
                /\ stompClient' = NoSocket
                /\ reconnectTimer' = ScheduleReconnect(ClearTimeout(t))
                /\ indicator' = "Reconnecting"
    BY <1>2 DEF ConnectWebSocket
  <2>. DEFINE sock1 == Released(sock, stompClient, threw, "free")
              subs1 == Released(subs, stompClient, threw, 0)
  <2>2. sock1 \in [Slots -> SockState] /\ subs1 \in [Slots -> Nat]
    BY ReleasedType DEF WsOK, SockState
  <2>3. TimerExact(ClearTimeout(t)) /\ TimerExact(ScheduleReconnect(ClearTimeout(t)))
    BY ClearTimeoutExact, ScheduleReconnectExact
  <2>. QED
    BY <2>1, <2>2, <2>3 DEF WsOK, SockState
<1>. QED
  BY <1>1, <1>2

-----------------------------------------------------------------------------
(* IInv holds initially.                                                   *)
LEMMA InitIInv == Init => IInv
<1> SUFFICES ASSUME Init PROVE IInv
  OBVIOUS
<1>1. fadeTimers \in 0..MaxFades /\ logoutsPending \in 0..MaxLogouts
      /\ intervals \in 0..MaxIntervals
  BY BoundsAssumption DEF Init
<1>2. sock \in [Slots -> SockState] /\ subs \in [Slots -> Nat]
  BY DEF Init, SockState
<1>3. TimerExact(reconnectTimer)
  BY DEF Init, TimerExact, TimerState
<1>. QED
  BY <1>1, <1>2, <1>3 DEF Init, IInv, TypeOK, RefreshCounted, TimerExact

(* Every step preserves IInv: one step per action.                        *)
LEMMA NextIInv == IInv /\ [Next]_vars => IInv'
<1> SUFFICES ASSUME IInv, [Next]_vars PROVE IInv'
  OBVIOUS
<1>. USE BoundsAssumption
<1>0. WsOK
  BY DEF IInv, TypeOK, TimerExact, WsOK
<1>1. CASE Boot
  <2>1. CASE token
    BY <1>0, <1>1, <2>1, ConnectOK
       DEF Boot, ShowApp, IInv, TypeOK, TimerExact, WsOK, RefreshCounted
  <2>2. CASE ~token
    BY <1>1, <2>2 DEF Boot, ShowLogin, IInv, TypeOK, TimerExact, RefreshCounted, wsVars
  <2>. QED
    BY <2>1, <2>2
<1>2. CASE LoginSubmit
  BY <1>2 DEF LoginSubmit, IInv, TypeOK, TimerExact, RefreshCounted, wsVars
<1>3. CASE LoginReply
  <2>1. CASE token' = TRUE /\ ShowApp
    <3>1. WsOK'
      BY <1>0, <2>1, ConnectOK DEF ShowApp, IInv
    <3>2. fadeTimers' \in 0..MaxFades /\ intervals' \in 0..MaxIntervals
          /\ refreshLive' = TRUE /\ intervals' >= 1
      BY <2>1 DEF ShowApp, IInv, TypeOK
    <3>3. page' \in {"boot", "login", "app"} /\ token' \in BOOLEAN
          /\ overlayHidden' \in BOOLEAN /\ loginPending' \in BOOLEAN
          /\ logoutsPending' \in 0..MaxLogouts
      BY <1>3, <2>1 DEF LoginReply, ShowApp, IInv, TypeOK
    <3>. QED
      BY <3>1, <3>2, <3>3 DEF IInv, TypeOK, WsOK, TimerExact, RefreshCounted
  <2>2. CASE UNCHANGED <<token, page, overlayHidden, fadeTimers, intervals,
                         refreshLive, wsVars>>
    BY <1>3, <2>2 DEF LoginReply, IInv, TypeOK, TimerExact, RefreshCounted, wsVars
  <2>. QED
    BY <1>3, <2>1, <2>2 DEF LoginReply
<1>4. ASSUME StartLogout PROVE WsOK' /\ RefreshCounted'
           /\ intervals' \in 0..MaxIntervals /\ refreshLive' \in BOOLEAN
           /\ logoutsPending' \in 0..MaxLogouts
  <2>1. WsOK'
    BY <1>0, <1>4, DisconnectOK DEF StartLogout, IInv
  <2>2. intervals' \in 0..MaxIntervals /\ refreshLive' = FALSE
        /\ logoutsPending' \in 0..MaxLogouts
    BY <1>4 DEF StartLogout, IInv, TypeOK, RefreshCounted
  <2>. QED
    BY <2>1, <2>2 DEF RefreshCounted
<1>5. CASE LogoutClick
  <2>1. UNCHANGED <<token, page, overlayHidden, fadeTimers, loginPending>>
    BY <1>5 DEF LogoutClick
  <2>. QED
    BY <1>4, <1>5, <2>1 DEF LogoutClick, IInv, TypeOK, WsOK, TimerExact
<1>15. CASE AuthExpired
  <2>1. UNCHANGED <<page, overlayHidden, fadeTimers, loginPending>>
        /\ token' = FALSE
    BY <1>15 DEF AuthExpired
  <2>. QED
    BY <1>4, <1>15, <2>1 DEF AuthExpired, IInv, TypeOK, WsOK, TimerExact
<1>6. CASE LogoutDone
  <2>1. UNCHANGED <<sock, stompClient, subs, reconnectTimer, indicator>>
    BY <1>6 DEF LogoutDone, wsVars
  <2>2. logoutsPending' \in 0..MaxLogouts
    BY <1>6 DEF LogoutDone, IInv, TypeOK
  <2>3. page' \in {"boot", "login", "app"} /\ token' \in BOOLEAN
        /\ overlayHidden' \in BOOLEAN
    BY <1>6 DEF LogoutDone, ShowLogin
  <2>4. UNCHANGED <<fadeTimers, intervals, refreshLive, loginPending>>
    BY <1>6 DEF LogoutDone, ShowLogin
  <2>. QED
    BY <2>1, <2>2, <2>3, <2>4 DEF IInv, TypeOK, TimerExact, RefreshCounted
<1>7. CASE FadeFire
  BY <1>7 DEF FadeFire, IInv, TypeOK, TimerExact, RefreshCounted, wsVars
<1>8. CASE ReconnectFire
  <2>1. TimerExact([pending |-> reconnectTimer.pending - 1, live |-> FALSE])
    BY <1>8, FiredExact DEF ReconnectFire, IInv
  <2>. QED
    BY <1>0, <1>8, <2>1, ConnectOK
       DEF ReconnectFire, IInv, TypeOK, TimerExact, WsOK, RefreshCounted
<1>9. CASE Reload
  <2>1. sock' \in [Slots -> SockState] /\ subs' \in [Slots -> Nat]
    BY <1>9 DEF Reload, SockState
  <2>2. TimerExact(reconnectTimer')
    BY <1>9 DEF Reload, TimerExact, TimerState
  <2>3. token' \in BOOLEAN
    BY <1>9 DEF Reload, IInv, TypeOK
  <2>4. /\ page' = "boot" /\ overlayHidden' = FALSE /\ fadeTimers' = 0
        /\ loginPending' = FALSE /\ logoutsPending' = 0 /\ intervals' = 0
        /\ refreshLive' = FALSE /\ stompClient' = NoSocket
        /\ indicator' = "Initial"
    BY <1>9 DEF Reload
  <2>5. /\ fadeTimers' \in 0..MaxFades /\ logoutsPending' \in 0..MaxLogouts
        /\ intervals' \in 0..MaxIntervals
    BY <2>4, BoundsAssumption
  <2>6. TypeOK'
    BY <2>1, <2>2, <2>3, <2>4, <2>5 DEF TypeOK, TimerExact
  <2>. QED
    BY <2>2, <2>4, <2>6 DEF IInv, RefreshCounted
<1>10. ASSUME NEW s \in Slots, SockOpen(s) PROVE IInv'
  BY <1>10 DEF SockOpen, IInv, TypeOK, TimerExact, RefreshCounted, SockState
<1>11. ASSUME NEW s \in Slots, OnConnect(s) PROVE IInv'
  <2>1. TimerExact(reconnectTimer')
    BY <1>11, ClearTimeoutExact DEF OnConnect, IInv
  <2>2. subs' \in [Slots -> Nat]
    BY <1>11 DEF OnConnect, IInv, TypeOK, TimerExact
  <2>. QED
    BY <1>11, <2>1, <2>2 DEF OnConnect, IInv, TypeOK, TimerExact, RefreshCounted, SockState
<1>12. ASSUME NEW s \in Slots, OnError(s) PROVE IInv'
  <2>1. TimerExact(reconnectTimer')
    BY <1>12, ScheduleReconnectExact DEF OnError, IInv
  <2>. QED
    BY <1>12, <2>1 DEF OnError, IInv, TypeOK, TimerExact, RefreshCounted, SockState
<1>13. ASSUME NEW s \in Slots, OnClose(s) PROVE IInv'
  <2>1. TimerExact(reconnectTimer')
    BY <1>13, ScheduleReconnectExact DEF OnClose, IInv
  <2>. QED
    BY <1>13, <2>1 DEF OnClose, IInv, TypeOK, TimerExact, RefreshCounted, SockState
<1>14. CASE UNCHANGED vars
  BY <1>14 DEF vars, IInv, TypeOK, TimerExact, RefreshCounted
<1>. QED
  BY <1>1, <1>2, <1>3, <1>4, <1>5, <1>6, <1>7, <1>8, <1>9, <1>10, <1>11,
     <1>12, <1>13, <1>14, <1>15 DEF Next

-----------------------------------------------------------------------------
(* The type invariant holds in every reachable state.                     *)
THEOREM TypeCorrect == Spec => []TypeOK
<1>1. IInv => TypeOK
  BY DEF IInv
<1>. QED
  BY <1>1, InitIInv, NextIInv, PTL DEF Spec

(* At most one reconnect timer is ever pending, whatever interleaving of  *)
(* connect, disconnect, onError and onclose the page goes through.        *)
THEOREM TimerSingletonHolds == Spec => []TimerSingleton
<1>1. IInv => TimerSingleton
  BY DEF IInv, TimerExact, TimerState, TimerSingleton
<1>. QED
  BY <1>1, InitIInv, NextIInv, PTL DEF Spec

=============================================================================
