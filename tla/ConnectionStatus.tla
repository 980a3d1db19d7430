--------------------------- MODULE ConnectionStatus ---------------------------
(***************************************************************************)
(* What the transport client promises (spec 4.1 and the state machine of  *)
(* 4.3), with no sockets, callbacks or handles: the connection status     *)
(* surfaced to the UI, whether one reconnect attempt is pending, and       *)
(* whether a session credential is stored.                                *)
(*   connect()     no-op without a credential; otherwise tears down any   *)
(*                 prior connection and goes to Connecting, or, if the    *)
(*                 attempt fails at once, to Disconnected with a retry;   *)
(*   handshake     Connecting -> Connected, the pending retry cancelled;  *)
(*   loss          handshake failure or closure: Disconnected, exactly    *)
(*                 one retry pending;                                     *)
(*   disconnect()  Disconnected, the retry cancelled;                     *)
(*   retry fires   re-evaluates the credential at fire time.              *)
(***************************************************************************)
VARIABLES status, retry, credential

absVars == <<status, retry, credential>>

Status == {"Disconnected", "Connecting", "Connected"}

Init ==
    /\ status = "Disconnected"
    /\ retry = FALSE
    /\ credential \in BOOLEAN

\* One connection attempt: Connecting, or Disconnected with a retry pending.
Attempt ==
    \/ status' = "Connecting" /\ retry' = FALSE
    \/ status' = "Disconnected" /\ retry' = TRUE

\* connect() with a credential (re-entrant: from any status).
Connect ==
    /\ credential
    /\ Attempt
    /\ UNCHANGED credential

\* A login stores a credential and connects.
SignIn ==
    /\ credential' = TRUE
    /\ Attempt

Handshake ==
    /\ status = "Connecting"
    /\ status' = "Connected"
    /\ retry' = FALSE
    /\ UNCHANGED credential

Loss ==
    /\ status' = "Disconnected"
    /\ retry' = TRUE
    /\ UNCHANGED credential

\* disconnect(), possibly together with the credential being cleared.
Disconnect ==
    /\ status' = "Disconnected"
    /\ retry' = FALSE
    /\ credential' \in {credential, FALSE}

\* The credential is cleared on its own (logout finishing).
SignOut ==
    /\ credential' = FALSE
    /\ UNCHANGED <<status, retry>>

RetryFires ==
    /\ retry
    /\ IF credential THEN Attempt
                     ELSE retry' = FALSE /\ UNCHANGED status
    /\ UNCHANGED credential

Next ==
    Connect \/ SignIn \/ Handshake \/ Loss \/ Disconnect \/ SignOut \/ RetryFires

Spec == Init /\ [][Next]_absVars
=============================================================================
