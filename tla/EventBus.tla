----------------------------- MODULE EventBus -----------------------------
(***************************************************************************)
(* The event bus of api.js (on, off, emit) for one event name. emit runs   *)
(* (listeners[event] || []).forEach(cb => try { cb(data) } catch {}):     *)
(* forEach fixes the length when it starts and reads each element when it *)
(* reaches it. on() pushes onto the array object listeners[event] names,   *)
(* which may be the one being iterated; off() replaces it by a filtered    *)
(* copy. A handler may throw, or call on or off itself; since the bus is   *)
(* exported as window.API, so may any caller between two emits.           *)
(***************************************************************************)
EXTENDS Naturals, Sequences

CONSTANTS Handlers,           \* callback identities
          MaxListeners        \* bound on the length of listeners[event]

ASSUME BusAssumption == MaxListeners \in Nat

VARIABLES
  listeners,    \* listeners[event]
  emitting,     \* an emit is running its forEach
  iter,         \* the array object the forEach iterates
  shared,       \* listeners[event] is still that same object
  len,          \* the length forEach fixed when it started
  idx,          \* the next index forEach visits
  snap,         \* ghost: listeners[event] when emit was called
  called        \* ghost: the callbacks this emit has invoked, in order

vars == <<listeners, emitting, iter, shared, len, idx, snap, called>>

\* The array after on(event, h): push onto it.
Pushed(arr, h) == Append(arr, h)

(* The array after off(event, h): filter(cb => cb !== h) walks the array  *)
(* in order and appends each element the test keeps; kept[i] is the      *)
(* result after the first i elements.                                     *)
Filtered(arr, h) ==
  LET kept[i \in 0..Len(arr)] ==
        IF i = 0 THEN <<>>
        ELSE IF arr[i] # h THEN Append(kept[i - 1], arr[i]) ELSE kept[i - 1]
  IN  kept[Len(arr)]

\* on(event, h), from a caller or a running handler.
On(h) ==
  /\ Len(listeners) < MaxListeners
  /\ listeners' = Pushed(listeners, h)
  /\ iter' = IF emitting /\ shared THEN Pushed(iter, h) ELSE iter
  /\ UNCHANGED <<emitting, shared, len, idx, snap, called>>

\* off(event, h): a fresh array, so a running forEach keeps its own.
Off(h) ==
  /\ listeners' = Filtered(listeners, h)
  /\ shared' = FALSE
  /\ UNCHANGED <<emitting, iter, len, idx, snap, called>>

Init ==
  /\ listeners = <<>>
  /\ emitting = FALSE
  /\ iter = <<>>
  /\ shared = FALSE
  /\ len = 0
  /\ idx = 1
  /\ snap = <<>>
  /\ called = <<>>

\* A caller outside any emit registers or removes a callback.
Register(h) == ~emitting /\ On(h)
Unregister(h) == ~emitting /\ Off(h)

(* emit(event, data): forEach starts over the current array.               *)
Emit ==
  /\ ~emitting
  /\ emitting' = TRUE
  /\ iter' = listeners
  /\ shared' = TRUE
  /\ len' = Len(listeners)
  /\ idx' = 1
  /\ snap' = listeners
  /\ called' = <<>>
  /\ UNCHANGED listeners

\* A mutant: forEach re-reads the live listeners[event] at every step.
InvokeLive ==
  /\ emitting
  /\ idx <= Len(listeners)
  /\ called' = Append(called, listeners[idx])
  /\ idx' = idx + 1
  /\ UNCHANGED <<listeners, emitting, iter, shared, len, snap>>

(* forEach visits index idx: cb(data) runs inside try/catch; whether it   *)
(* returns or throws, the loop goes on.                                    *)
Invoke ==
  /\ emitting
  /\ idx <= len
  /\ called' = Append(called, iter[idx])
  /\ idx' = idx + 1
  /\ UNCHANGED <<listeners, emitting, iter, shared, len, snap>>

(* The running callback itself calls on or off before returning.           *)
Reenter(h) ==
  /\ emitting
  /\ idx > 1
  /\ On(h) \/ Off(h)

(* forEach has visited every index below the length it fixed.              *)
Finish ==
  /\ emitting
  /\ idx > len
  /\ emitting' = FALSE
  /\ UNCHANGED <<listeners, iter, shared, len, idx, snap, called>>

Next ==
  \/ \E h \in Handlers : Register(h) \/ Unregister(h) \/ Reenter(h)
  \/ Emit
  \/ Invoke
  \/ Finish

Spec == Init /\ [][Next]_vars

-----------------------------------------------------------------------------
TypeOK ==
  /\ listeners \in Seq(Handlers)
  /\ emitting \in BOOLEAN
  /\ iter \in Seq(Handlers)
  /\ shared \in BOOLEAN
  /\ len \in Nat /\ idx \in Nat \ {0}
  /\ snap \in Seq(Handlers)
  /\ called \in Seq(Handlers)

(***************************************************************************)
(* emit invokes exactly the callbacks registered when it was called, in    *)
(* registration order, duplicates included: during the forEach the calls  *)
(* so far are a prefix of that list, and when it ends they are all of it,  *)
(* whatever the callbacks did to the registrations meanwhile.             *)
(***************************************************************************)
EmitDeliversSnapshot ==
  /\ Len(called) <= Len(snap)
  /\ called = SubSeq(snap, 1, Len(called))
  /\ ~emitting => called = snap
=============================================================================
