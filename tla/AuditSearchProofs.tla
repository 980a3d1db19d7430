------------------------- MODULE AuditSearchProofs -------------------------
(***************************************************************************)
(* Proof that the audit search debounce issues at most one fetch per burst *)
(* of keystrokes, for every set of filters and every bound.  The property *)
(* is not inductive: it needs that the input handler's clearTimeout always *)
(* finds the one pending timeout, i.e. that at most one is ever set and    *)
(* that state.auditSearchDebounce names it exactly when it is, and that a  *)
(* pending timeout means no debounced fetch since the last keystroke.      *)
(***************************************************************************)
EXTENDS AuditSearch, TLAPS

DebounceInv ==
  /\ timers \in 0..1
  /\ handleLive \in BOOLEAN
  /\ handleLive <=> timers = 1
  /\ burstFetches \in Nat
  /\ burstFetches + timers <= 1

LEMMA InitDebounceInv == Init => DebounceInv
<1> SUFFICES ASSUME Init PROVE DebounceInv
  OBVIOUS
<1>1. handleLive = FALSE /\ timers = 0 /\ burstFetches = 0
  BY DEF Init
<1>2. handleLive \in BOOLEAN
  BY <1>1, Zenon
<1> QED BY <1>1, <1>2 DEF DebounceInv

LEMMA NextDebounceInv == DebounceInv /\ [Next]_vars => DebounceInv'
<1> SUFFICES ASSUME DebounceInv, [Next]_vars PROVE DebounceInv'
  OBVIOUS
<1>1. ASSUME NEW p \in {"audit", "other"}, Navigate(p) PROVE DebounceInv'
  BY <1>1 DEF Navigate, DebounceInv
<1>2. ASSUME NEW v \in Filters, Type(v) PROVE DebounceInv'
  <2>1. timers' = 1 /\ handleLive' /\ burstFetches' = 0
    BY <1>2 DEF Type, DebounceInv
  <2> QED BY <2>1 DEF DebounceInv
<1>3. CASE DebounceFire
  <2>1. timers = 1 /\ burstFetches = 0
    BY <1>3 DEF DebounceFire, DebounceInv
  <2>2. timers' = 0 /\ burstFetches' = 1 /\ ~(timers > 1)
    BY <1>3, <2>1 DEF DebounceFire
  <2>3. handleLive' = FALSE /\ handleLive' \in BOOLEAN
    BY <1>3, <2>2, Zenon DEF DebounceFire
  <2> QED BY <2>2, <2>3 DEF DebounceInv
<1>4. ASSUME NEW f \in BagToSet(fetches), Answer(f) \/ Deliver(f) \/ Fail(f)
      PROVE DebounceInv'
  BY <1>4 DEF Answer, Deliver, Fail, DebounceInv
<1>5. CASE UNCHANGED vars
  BY <1>5 DEF vars, DebounceInv
<1> QED BY <1>1, <1>2, <1>3, <1>4, <1>5 DEF Next

(***************************************************************************)
(* For every set of filters and every bound on fetches, a burst of        *)
(* keystrokes in #audit-search, however it interleaves with navigation    *)
(* and with fetches completing, issues at most one debounced              *)
(* loadAuditLogs (the input handler's clearTimeout + setTimeout).         *)
(***************************************************************************)
THEOREM DebounceOnce == Spec => []DebounceOncePerBurst
<1>1. DebounceInv => DebounceOncePerBurst
  BY DEF DebounceInv, DebounceOncePerBurst
<1> QED BY <1>1, InitDebounceInv, NextDebounceInv, PTL DEF Spec
=============================================================================
