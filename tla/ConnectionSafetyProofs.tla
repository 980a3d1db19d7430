------------------------ MODULE ConnectionSafetyProofs ------------------------
(***************************************************************************)
(* Proofs of the push client's two safety invariants that TLC checks on   *)
(* three slots, for every set of slots and every bound, when              *)
(* stompClient.disconnect() does not throw: the topics are subscribed at  *)
(* most once per socket, and a logged-in page always has a live socket or *)
(* a pending reconnect.  Both rest on RInv (ConnectionRefinement): the    *)
(* exact reconnect-timer count and "every live socket is the current      *)
(* client".                                                                *)
(***************************************************************************)
EXTENDS ConnectionRefinement

(* A socket carries subscriptions only once connected, and then one batch. *)
SubsBound == \A s \in Slots : subs[s] <= (IF sock[s] = "connected" THEN 1 ELSE 0)

SInv == RInv /\ SubsBound /\ ReconnectArmed

-----------------------------------------------------------------------------
(* After a non-throwing release every slot is free and unsubscribed.       *)
LEMMA ReleasedSubs ==
    ASSUME ~DisconnectMayThrow, OnlyCurrentLive, SubsBound,
           sock \in [Slots -> SockState], subs \in [Slots -> Nat],
           stompClient \in Slots \cup {NoSocket},
           NEW threw \in DisconnectThrows(stompClient)
    PROVE  \A s \in Slots : Released(subs, stompClient, threw, 0)[s] = 0
<1>1. threw = FALSE
  BY DEF DisconnectThrows
<1>2. \A s \in Slots : s # stompClient => sock[s] = "free" /\ subs[s] = 0
  BY DEF OnlyCurrentLive, SubsBound
<1>3. CASE stompClient = NoSocket
  BY <1>1, <1>2, <1>3, SlotsAssumption DEF Released
<1>4. CASE stompClient # NoSocket
  BY <1>1, <1>2, <1>4 DEF Released
<1>. QED
  BY <1>3, <1>4

(* connectWebSocket keeps SubsBound, and with a token it leaves the       *)
(* client alive or a retry pending.                                        *)
LEMMA ConnectSubs ==
    ASSUME ~DisconnectMayThrow, OnlyCurrentLive, SubsBound,
           sock \in [Slots -> SockState], subs \in [Slots -> Nat],
           stompClient \in Slots \cup {NoSocket},
           NEW t, TimerExact(t), ConnectWebSocket(t)
    PROVE  /\ SubsBound'
           /\ token' => CurrentAlive' \/ reconnectTimer'.pending > 0
<1>1. CASE ~token'
  BY <1>1 DEF ConnectWebSocket, SubsBound
<1>2. CASE token'
  <2>1. PICK threw \in DisconnectThrows(stompClient) :
          LET sock1 == Released(sock, stompClient, threw, "free")
              subs1 == Released(subs, stompClient, threw, 0)
          IN \/ \E s \in Slots :
                   /\ sock1[s] = "free"
                   /\ sock' = [sock1 EXCEPT ![s] = "opening"]
                   /\ subs' = [subs1 EXCEPT ![s] = 0]
                   /\ stompClient' = s
             \/ /\ sock' = sock1
                /\ subs' = subs1
                /\ reconnectTimer' = ScheduleReconnect(ClearTimeout(t))
    BY <1>2 DEF ConnectWebSocket
  <2>. DEFINE sock1 == Released(sock, stompClient, threw, "free")
              subs1 == Released(subs, stompClient, threw, 0)
  <2>2. sock1 \in [Slots -> SockState] /\ subs1 \in [Slots -> Nat]
    BY ReleasedType DEF SockState
  <2>3. \A s \in Slots : sock1[s] = "free" /\ subs1[s] = 0
    BY ReleasedAllFree, ReleasedSubs
  <2>4. ScheduleReconnect(ClearTimeout(t)).pending = 1
    BY ClearTimeoutExact, ScheduleReconnectExact
  <2>5. CASE \E s \in Slots : /\ sock1[s] = "free"
                              /\ sock' = [sock1 EXCEPT ![s] = "opening"]
                              /\ subs' = [subs1 EXCEPT ![s] = 0]
                              /\ stompClient' = s
    BY <2>2, <2>3, <2>5, SlotsAssumption DEF SubsBound, CurrentAlive
  <2>6. CASE /\ sock' = sock1
             /\ subs' = subs1
             /\ reconnectTimer' = ScheduleReconnect(ClearTimeout(t))
    BY <2>2, <2>3, <2>4, <2>6 DEF SubsBound
  <2>. QED
    BY <2>1, <2>5, <2>6
<1>. QED
  BY <1>1, <1>2

(* disconnectWebSocket keeps SubsBound.                                    *)
LEMMA DisconnectSubs ==
    ASSUME ~DisconnectMayThrow, OnlyCurrentLive, SubsBound,
           sock \in [Slots -> SockState], subs \in [Slots -> Nat],
           stompClient \in Slots \cup {NoSocket},
           NEW t, DisconnectWebSocket(t)
    PROVE  SubsBound'
<1>1. PICK threw \in DisconnectThrows(stompClient) :
        /\ sock' = Released(sock, stompClient, threw, "free")
        /\ subs' = Released(subs, stompClient, threw, 0)
  BY DEF DisconnectWebSocket
<1>. QED
  BY <1>1, ReleasedSubs DEF SubsBound

-----------------------------------------------------------------------------
LEMMA InitSInv == Init => SInv
BY InitRInv DEF Init, SInv, SubsBound, ReconnectArmed, LoggedIn

(* Every step preserves SInv: one step per action.                        *)
LEMMA NextSInv ==
    ASSUME ~DisconnectMayThrow
    PROVE  SInv /\ [Next]_vars => SInv'
<1> SUFFICES ASSUME SInv, [Next]_vars PROVE SInv'
  OBVIOUS
<1>0. /\ sock \in [Slots -> SockState] /\ subs \in [Slots -> Nat]
      /\ stompClient \in Slots \cup {NoSocket} /\ TimerExact(reconnectTimer)
      /\ OnlyCurrentLive /\ SubsBound /\ ReconnectArmed
      /\ logoutsPending \in Nat
  BY DEF SInv, RInv, IInv, TypeOK
<1>r. RInv'
  BY NextRInv DEF SInv
<1>. DEFINE Same == UNCHANGED <<token, page, logoutsPending, sock, subs,
                                stompClient, reconnectTimer>>
<1>s. Same => SubsBound' /\ ReconnectArmed'
  BY <1>0 DEF Same, SubsBound, ReconnectArmed, LoggedIn, CurrentAlive
<1>1. CASE Boot
  <2>1. CASE token
    <3>1. ConnectWebSocket(reconnectTimer) /\ token' = token
      BY <1>1, <2>1 DEF Boot, ShowApp
    <3>. QED
      BY <1>0, <1>r, <2>1, <3>1, ConnectSubs DEF SInv, ReconnectArmed, LoggedIn
  <2>2. CASE ~token
    <3>1. UNCHANGED <<token, sock, subs>>
      BY <1>1, <2>2 DEF Boot, wsVars
    <3>. QED
      BY <1>0, <1>r, <2>2, <3>1 DEF SInv, SubsBound, ReconnectArmed, LoggedIn
  <2>. QED
    BY <2>1, <2>2
<1>2. CASE LoginReply
  <2>1. CASE token' = TRUE /\ ShowApp
    BY <1>0, <1>r, <2>1, ConnectSubs DEF ShowApp, SInv, ReconnectArmed, LoggedIn
  <2>2. CASE UNCHANGED <<token, page, overlayHidden, fadeTimers, intervals,
                         refreshLive, wsVars>>
    BY <1>2, <2>2, <1>s, <1>r DEF LoginReply, wsVars, Same, SInv
  <2>. QED
    BY <1>2, <2>1, <2>2 DEF LoginReply
<1>3. CASE LogoutClick \/ AuthExpired
  <2>1. SubsBound'
    BY <1>0, <1>3, DisconnectSubs DEF LogoutClick, AuthExpired, StartLogout
  <2>2. ~LoggedIn'
    BY <1>0, <1>3 DEF LogoutClick, AuthExpired, StartLogout, LoggedIn
  <2>. QED
    BY <1>r, <2>1, <2>2 DEF SInv, ReconnectArmed
<1>4. CASE LogoutDone
  <2>1. UNCHANGED <<sock, subs>> /\ page' = "login"
    BY <1>4 DEF LogoutDone, ShowLogin, wsVars
  <2>. QED
    BY <1>0, <1>r, <2>1 DEF SInv, SubsBound, ReconnectArmed, LoggedIn
<1>5. CASE LoginSubmit \/ FadeFire
  BY <1>5, <1>s, <1>r DEF LoginSubmit, FadeFire, wsVars, Same, SInv
<1>6. CASE ReconnectFire
  <2>. DEFINE t == [pending |-> reconnectTimer.pending - 1, live |-> FALSE]
  <2>1. ConnectWebSocket(t) /\ UNCHANGED <<token, page, logoutsPending>>
        /\ reconnectTimer.pending > 0
    BY <1>6 DEF ReconnectFire
  <2>2. TimerExact(t)
    BY <1>0, <2>1 DEF TimerExact, TimerState
  <2>. QED
    BY <1>0, <1>r, <2>1, <2>2, ConnectSubs DEF SInv, ReconnectArmed, LoggedIn
<1>7. CASE Reload
  BY <1>7, <1>r DEF Reload, SInv, SubsBound, ReconnectArmed, LoggedIn
<1>8. ASSUME NEW s \in Slots, SockOpen(s) PROVE SInv'
  <2>1. subs[s] = 0 /\ sock'[s] = "open"
    BY <1>0, <1>8 DEF SockOpen, SubsBound
  <2>2. SubsBound'
    BY <1>0, <1>8, <2>1 DEF SockOpen, SubsBound
  <2>3. CurrentAlive' = CurrentAlive
    BY <1>0, <1>8 DEF SockOpen, CurrentAlive
  <2>. QED
    BY <1>0, <1>8, <1>r, <2>2, <2>3 DEF SockOpen, SInv, ReconnectArmed, LoggedIn
<1>9. ASSUME NEW s \in Slots, OnConnect(s) PROVE SInv'
  <2>1. s = stompClient /\ sock[s] = "open" /\ subs[s] = 0
    BY <1>0, <1>9 DEF OnConnect, OnlyCurrentLive, SubsBound
  <2>2. sock' = [sock EXCEPT ![s] = "connected"]
        /\ subs' = [subs EXCEPT ![s] = 1]
    BY <1>0, <1>9, <2>1, SlotsAssumption DEF OnConnect
  <2>3. SubsBound'
    BY <1>0, <2>2 DEF SubsBound
  <2>4. CurrentAlive'
    BY <1>0, <1>9, <2>1, <2>2 DEF OnConnect, CurrentAlive
  <2>. QED
    BY <1>r, <2>3, <2>4 DEF SInv, ReconnectArmed
<1>10. ASSUME NEW s \in Slots, OnError(s) \/ OnClose(s) PROVE SInv'
  <2>1. subs' = [subs EXCEPT ![s] = 0] /\ sock' \in [Slots -> SockState]
        /\ \A x \in Slots \ {s} : sock'[x] = sock[x]
    BY <1>0, <1>10 DEF OnError, OnClose, SockState
  <2>2. SubsBound'
    BY <1>0, <2>1 DEF SubsBound
  <2>3. reconnectTimer'.pending = 1
    BY <1>0, <1>10, ScheduleReconnectExact DEF OnError, OnClose
  <2>. QED
    BY <1>r, <2>2, <2>3 DEF SInv, ReconnectArmed
<1>11. CASE UNCHANGED vars
  BY <1>11, <1>s, <1>r DEF vars, Same, SInv
<1>. QED
  BY <1>1, <1>2, <1>3, <1>4, <1>5, <1>6, <1>7, <1>8, <1>9, <1>10, <1>11 DEF Next

-----------------------------------------------------------------------------
(* For every set of slots and every bound, a logged-in page always has a  *)
(* live socket or a pending reconnect (ReconnectArmed) when disconnect()  *)
(* does not throw: every loss onError, onclose or a failed constructor   *)
(* reports schedules a retry, and only onConnect of the current socket    *)
(* clears it.                                                              *)
THEOREM ReconnectArmedHolds ==
    ASSUME ~DisconnectMayThrow
    PROVE  Spec => []ReconnectArmed
<1>1. SInv => ReconnectArmed
  BY DEF SInv
<1>. QED
  BY <1>1, InitSInv, NextSInv, PTL DEF Spec

=============================================================================
