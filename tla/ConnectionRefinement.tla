------------------------ MODULE ConnectionRefinement ------------------------
(***************************************************************************)
(* Proof that the push client implements the spec's connection state      *)
(* machine (ConnectionStatus) under the mapping of Connection, for every  *)
(* set of slots and every bound, when stompClient.disconnect() does not   *)
(* throw.  The mapping reads the status off the module's stompClient      *)
(* only, so the proof needs one more invariant: every socket whose        *)
(* callbacks are still live is the module's stompClient.  (When           *)
(* disconnect() may throw, an orphaned socket breaks exactly this; its    *)
(* onclose then schedules a retry that the mapping cannot explain.)       *)
(***************************************************************************)
EXTENDS ConnectionProofs

(* Every socket with live callbacks is the current client's.              *)
OnlyCurrentLive == \A s \in Slots : sock[s] # "free" => s = stompClient

RInv == IInv /\ OnlyCurrentLive

-----------------------------------------------------------------------------
(* With a non-throwing disconnect, releasing the current client frees    *)
(* every slot.                                                            *)
LEMMA ReleasedAllFree ==
    ASSUME ~DisconnectMayThrow, OnlyCurrentLive,
           sock \in [Slots -> SockState], stompClient \in Slots \cup {NoSocket},
           NEW threw \in DisconnectThrows(stompClient)
    PROVE  \A s \in Slots : Released(sock, stompClient, threw, "free")[s] = "free"
<1>1. threw = FALSE
  BY DEF DisconnectThrows
<1>2. CASE stompClient = NoSocket
  BY <1>1, <1>2, SlotsAssumption DEF Released, OnlyCurrentLive
<1>3. CASE stompClient # NoSocket
  BY <1>1, <1>3 DEF Released, OnlyCurrentLive
<1>. QED
  BY <1>2, <1>3

(* connectWebSocket leaves at most the new client's socket live.          *)
LEMMA ConnectLive ==
    ASSUME ~DisconnectMayThrow, OnlyCurrentLive,
           sock \in [Slots -> SockState], stompClient \in Slots \cup {NoSocket},
           NEW t, ConnectWebSocket(t)
    PROVE  OnlyCurrentLive'
<1>1. CASE ~token'
  BY <1>1 DEF ConnectWebSocket, OnlyCurrentLive
<1>2. CASE token'
  <2>1. PICK threw \in DisconnectThrows(stompClient) :
          LET sock1 == Released(sock, stompClient, threw, "free")
          IN \/ \E s \in Slots :
                   /\ sock1[s] = "free"
                   /\ sock' = [sock1 EXCEPT ![s] = "opening"]
                   /\ stompClient' = s
             \/ /\ sock' = sock1
                /\ stompClient' = NoSocket
    BY <1>2 DEF ConnectWebSocket
  <2>. DEFINE sock1 == Released(sock, stompClient, threw, "free")
  <2>2. \A s \in Slots : sock1[s] = "free"
    BY ReleasedAllFree
  <2>3. sock1 \in [Slots -> SockState]
    BY ReleasedType DEF SockState
  <2>. QED
    BY <2>1, <2>2, <2>3 DEF OnlyCurrentLive
<1>. QED
  BY <1>1, <1>2

(* disconnectWebSocket leaves no socket live.                             *)
LEMMA DisconnectLive ==
    ASSUME ~DisconnectMayThrow, OnlyCurrentLive,
           sock \in [Slots -> SockState], stompClient \in Slots \cup {NoSocket},
           NEW t, DisconnectWebSocket(t)
    PROVE  OnlyCurrentLive' /\ \A s \in Slots : sock'[s] = "free"
<1>1. PICK threw \in DisconnectThrows(stompClient) :
        sock' = Released(sock, stompClient, threw, "free")
  BY DEF DisconnectWebSocket
<1>. QED
  BY <1>1, ReleasedAllFree DEF OnlyCurrentLive

(* OnlyCurrentLive is preserved by every step.                            *)
LEMMA NextOnlyCurrentLive ==
    ASSUME ~DisconnectMayThrow
    PROVE  IInv /\ OnlyCurrentLive /\ [Next]_vars => OnlyCurrentLive'
<1> SUFFICES ASSUME IInv, OnlyCurrentLive, [Next]_vars PROVE OnlyCurrentLive'
  OBVIOUS
<1>0. sock \in [Slots -> SockState] /\ stompClient \in Slots \cup {NoSocket}
  BY DEF IInv, TypeOK
<1>1. CASE Boot
  <2>1. CASE token
    BY <1>0, <1>1, <2>1, ConnectLive DEF Boot, ShowApp
  <2>2. CASE ~token
    BY <1>1, <2>2 DEF Boot, wsVars, OnlyCurrentLive
  <2>. QED
    BY <2>1, <2>2
<1>2. CASE LoginReply
  BY <1>0, <1>2, ConnectLive DEF LoginReply, ShowApp, wsVars, OnlyCurrentLive
<1>3. CASE LogoutClick \/ AuthExpired
  BY <1>0, <1>3, DisconnectLive DEF LogoutClick, AuthExpired, StartLogout
<1>4. CASE ReconnectFire
  BY <1>0, <1>4, ConnectLive DEF ReconnectFire
<1>5. CASE LoginSubmit \/ LogoutDone \/ FadeFire
  BY <1>5 DEF LoginSubmit, LogoutDone, FadeFire, wsVars, OnlyCurrentLive
<1>6. CASE Reload
  BY <1>6 DEF Reload, OnlyCurrentLive
<1>7. ASSUME NEW s \in Slots,
             SockOpen(s) \/ OnConnect(s) \/ OnError(s) \/ OnClose(s)
      PROVE  OnlyCurrentLive'
  <2>1. stompClient' = stompClient
    BY <1>7 DEF SockOpen, OnConnect, OnError, OnClose
  <2>2. sock' = [sock EXCEPT ![s] = sock'[s]]
    BY <1>0, <1>7 DEF SockOpen, OnConnect, OnError, OnClose
  <2>3. sock'[s] # "free" => sock[s] # "free"
    BY <1>0, <1>7 DEF SockOpen, OnConnect, OnError, OnClose
  <2>. QED
    BY <1>0, <2>1, <2>2, <2>3 DEF OnlyCurrentLive
<1>8. CASE UNCHANGED vars
  BY <1>8 DEF vars, OnlyCurrentLive
<1>. QED
  BY <1>1, <1>2, <1>3, <1>4, <1>5, <1>6, <1>7, <1>8 DEF Next

LEMMA InitRInv == Init => RInv
BY InitIInv DEF Init, RInv, OnlyCurrentLive

LEMMA NextRInv ==
    ASSUME ~DisconnectMayThrow
    PROVE  RInv /\ [Next]_vars => RInv'
BY NextIInv, NextOnlyCurrentLive DEF RInv

-----------------------------------------------------------------------------
(* The mapped state after connectWebSocket with a token: Connecting with  *)
(* no retry, or Disconnected with one.                                    *)
LEMMA ConnectMaps ==
    ASSUME ~DisconnectMayThrow, OnlyCurrentLive,
           sock \in [Slots -> SockState], stompClient \in Slots \cup {NoSocket},
           NEW t, TimerExact(t), token', ConnectWebSocket(t)
    PROVE  \/ ClientStatus' = "Connecting" /\ ~(reconnectTimer'.pending > 0)
           \/ ClientStatus' = "Disconnected" /\ reconnectTimer'.pending > 0
<1>1. PICK threw \in DisconnectThrows(stompClient) :
        LET sock1 == Released(sock, stompClient, threw, "free")
        IN \/ \E s \in Slots :
                 /\ sock1[s] = "free"
                 /\ sock' = [sock1 EXCEPT ![s] = "opening"]
                 /\ stompClient' = s
                 /\ reconnectTimer' = ClearTimeout(t)
           \/ /\ stompClient' = NoSocket
              /\ reconnectTimer' = ScheduleReconnect(ClearTimeout(t))
  BY DEF ConnectWebSocket
<1>. DEFINE sock1 == Released(sock, stompClient, threw, "free")
<1>2. sock1 \in [Slots -> SockState]
  BY ReleasedType DEF SockState
<1>3. ClearTimeout(t) = [pending |-> 0, live |-> FALSE]
      /\ ScheduleReconnect(ClearTimeout(t)) = [pending |-> 1, live |-> TRUE]
  BY ClearTimeoutExact, ScheduleReconnectExact
<1>4. CASE \E s \in Slots : /\ sock1[s] = "free"
                            /\ sock' = [sock1 EXCEPT ![s] = "opening"]
                            /\ stompClient' = s
                            /\ reconnectTimer' = ClearTimeout(t)
  <2>1. PICK s \in Slots : /\ sock' = [sock1 EXCEPT ![s] = "opening"]
                           /\ stompClient' = s
                           /\ reconnectTimer' = ClearTimeout(t)
    BY <1>4
  <2>2. ClientStatus' = "Connecting"
    BY <1>2, <2>1, SlotsAssumption DEF ClientStatus, PhaseOf
  <2>. QED
    BY <1>3, <2>1, <2>2
<1>5. CASE stompClient' = NoSocket
           /\ reconnectTimer' = ScheduleReconnect(ClearTimeout(t))
  BY <1>3, <1>5 DEF ClientStatus
<1>. QED
  BY <1>1, <1>4, <1>5

(* The mapped state after disconnectWebSocket: Disconnected, no retry.   *)
LEMMA DisconnectMaps ==
    ASSUME NEW t, TimerExact(t), DisconnectWebSocket(t)
    PROVE  ClientStatus' = "Disconnected" /\ reconnectTimer'.pending = 0
<1>1. stompClient' = NoSocket /\ reconnectTimer' = ClearTimeout(t)
  BY DEF DisconnectWebSocket
<1>. QED
  BY <1>1, ClearTimeoutExact DEF ClientStatus


-----------------------------------------------------------------------------
(* Every step of the push client is a step of ConnectionStatus under the  *)
(* mapping, or leaves the mapped state unchanged: one step per action.    *)
LEMMA StepMaps ==
    ASSUME ~DisconnectMayThrow
    PROVE  RInv /\ [Next]_vars => [Abs!Next]_(Abs!absVars)
<1> SUFFICES ASSUME RInv, [Next]_vars PROVE [Abs!Next]_(Abs!absVars)
  OBVIOUS
<1>0. /\ sock \in [Slots -> SockState] /\ stompClient \in Slots \cup {NoSocket}
      /\ TimerExact(reconnectTimer) /\ OnlyCurrentLive /\ token \in BOOLEAN
  BY DEF RInv, IInv, TypeOK
<1>. DEFINE Stutter == UNCHANGED <<token, sock, stompClient, reconnectTimer>>
<1>s. Stutter => UNCHANGED Abs!absVars
  BY DEF Stutter, ClientStatus, Abs!absVars
<1>1. CASE Boot
  <2>1. CASE token
    <3>1. ConnectWebSocket(reconnectTimer) /\ token' = token
      BY <1>1, <2>1 DEF Boot, ShowApp
    <3>. QED
      BY <1>0, <2>1, <3>1, ConnectMaps DEF Abs!Next, Abs!Connect, Abs!Attempt
  <2>3. CASE ~token
    BY <1>1, <2>3, <1>s DEF Boot, wsVars
  <2>. QED
    BY <2>1, <2>3
<1>2. CASE LoginReply
  <2>1. CASE token' = TRUE /\ ShowApp
    BY <1>0, <2>1, ConnectMaps DEF ShowApp, Abs!Next, Abs!SignIn, Abs!Attempt
  <2>2. CASE UNCHANGED <<token, page, overlayHidden, fadeTimers, intervals,
                         refreshLive, wsVars>>
    BY <2>2, <1>s DEF wsVars
  <2>. QED
    BY <1>2, <2>1, <2>2 DEF LoginReply
<1>3. CASE LogoutClick \/ AuthExpired
  <2>1. ClientStatus' = "Disconnected" /\ reconnectTimer'.pending = 0
    BY <1>0, <1>3, DisconnectMaps DEF LogoutClick, AuthExpired, StartLogout
  <2>2. token' \in {token, FALSE}
    BY <1>3 DEF LogoutClick, AuthExpired
  <2>3. (reconnectTimer.pending > 0)' = FALSE
    BY <2>1
  <2>4. Abs!Disconnect
    BY <2>1, <2>2, <2>3 DEF Abs!Disconnect
  <2>. QED
    BY <2>4 DEF Abs!Next
<1>4. CASE LogoutDone
  BY <1>4 DEF LogoutDone, wsVars, ClientStatus, Abs!Next, Abs!SignOut
<1>5. CASE LoginSubmit \/ FadeFire
  BY <1>5, <1>s DEF LoginSubmit, FadeFire, wsVars
<1>6. CASE ReconnectFire
  <2>. DEFINE t == [pending |-> reconnectTimer.pending - 1, live |-> FALSE]
  <2>1. reconnectTimer.pending > 0 /\ ConnectWebSocket(t) /\ token' = token
    BY <1>6 DEF ReconnectFire
  <2>2. TimerExact(t) /\ t.pending = 0
    BY <1>0, <2>1 DEF TimerExact, TimerState
  <2>3. CASE token
    BY <1>0, <2>1, <2>2, <2>3, ConnectMaps
       DEF Abs!Next, Abs!RetryFires, Abs!Attempt
  <2>4. CASE ~token
    <3>1. reconnectTimer' = t /\ UNCHANGED <<sock, stompClient>>
      BY <2>1, <2>4 DEF ConnectWebSocket
    <3>. QED
      BY <2>1, <2>2, <2>4, <3>1 DEF ClientStatus, Abs!Next, Abs!RetryFires
  <2>. QED
    BY <1>0, <2>3, <2>4
<1>7. CASE Reload
  BY <1>7 DEF Reload, ClientStatus, Abs!Next, Abs!Disconnect
<1>8. ASSUME NEW s \in Slots, SockOpen(s) PROVE [Abs!Next]_(Abs!absVars)
  <2>1. ClientStatus' = ClientStatus
    BY <1>0, <1>8 DEF SockOpen, ClientStatus, PhaseOf
  <2>2. UNCHANGED Abs!absVars
    BY <1>8, <2>1 DEF SockOpen, Abs!absVars
  <2>. QED
    BY <2>2
<1>9. ASSUME NEW s \in Slots, OnConnect(s) PROVE [Abs!Next]_(Abs!absVars)
  <2>1. s = stompClient /\ sock[s] = "open"
    BY <1>0, <1>9 DEF OnConnect, OnlyCurrentLive
  <2>2. ClientStatus = "Connecting" /\ ClientStatus' = "Connected"
    BY <1>0, <1>9, <2>1, SlotsAssumption DEF OnConnect, ClientStatus, PhaseOf
  <2>3. reconnectTimer'.pending = 0 /\ UNCHANGED token
    BY <1>0, <1>9, ClearTimeoutExact DEF OnConnect
  <2>. QED
    BY <2>2, <2>3 DEF Abs!Next, Abs!Handshake
<1>10. ASSUME NEW s \in Slots, OnError(s) \/ OnClose(s)
       PROVE  [Abs!Next]_(Abs!absVars)
  <2>1. s = stompClient
    BY <1>0, <1>10 DEF OnError, OnClose, OnlyCurrentLive
  <2>2. ClientStatus' = "Disconnected"
    BY <1>0, <1>10, <2>1, SlotsAssumption DEF OnError, OnClose, ClientStatus, PhaseOf
  <2>3. reconnectTimer'.pending = 1 /\ UNCHANGED token
    BY <1>0, <1>10, ScheduleReconnectExact DEF OnError, OnClose
  <2>. QED
    BY <2>2, <2>3 DEF Abs!Next, Abs!Loss
<1>11. CASE UNCHANGED vars
  BY <1>11, <1>s DEF vars
<1>. QED
  BY <1>1, <1>2, <1>3, <1>4, <1>5, <1>6, <1>7, <1>8, <1>9, <1>10, <1>11 DEF Next

(***************************************************************************)
(* For every set of slots and every bound, the push client implements the *)
(* spec's connection state machine (ImplementsStatus) when disconnect()   *)
(* does not throw: connectWebSocket, disconnectWebSocket, the reconnect   *)
(* timer and the onConnect / onError / onclose callbacks only ever take   *)
(* the transitions the spec allows.                                       *)
(***************************************************************************)
THEOREM Refinement ==
    ASSUME ~DisconnectMayThrow
    PROVE  Spec => ImplementsStatus
<1>1. Spec => []RInv
  BY InitRInv, NextRInv, PTL DEF Spec
<1>2. Init => Abs!Init
  BY DEF Init, ClientStatus, Abs!Init
<1>3. RInv /\ [Next]_vars => [Abs!Next]_(Abs!absVars)
  BY StepMaps
<1>. QED
  BY <1>1, <1>2, <1>3, PTL DEF Spec, ImplementsStatus, Abs!Spec

=============================================================================
