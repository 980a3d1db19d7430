--------------------------- MODULE UserAdminProofs ---------------------------
(***************************************************************************)
(* Proof that the create form on screen always gets its submit listener   *)
(* once its 50 ms binding timeouts have fired (showCreateUserModal).       *)
(* CreateFormBound is not inductive: a closed modal may hold a create form *)
(* without a listener while a timeout is pending, and reopening it is not  *)
(* the step that binds.  The strengthening drops modalOpen: whenever       *)
(* #modal-body holds a create form and no binding timeout is pending, a    *)
(* listener is bound, open or not.                                         *)
(***************************************************************************)
EXTENDS UserAdmin, TLAPS

FormInv ==
  /\ handlers \in Nat
  /\ binds \in Nat
  /\ (body = "create" /\ binds = 0) => handlers > 0

LEMMA InitFormInv == Init => FormInv
BY DEF Init, FormInv

LEMMA NextFormInv == FormInv /\ [Next]_uaVars => FormInv'
<1> SUFFICES ASSUME FormInv, [Next]_uaVars PROVE FormInv'
  OBVIOUS
<1>1. ASSUME NEW p \in {"users", "other"}, Navigate(p) PROVE FormInv'
  BY <1>1 DEF Navigate, FormInv
<1>2. ASSUME NEW r \in BagToSet(loads),
             AnswerUsers(r) \/ DeliverUsers(r) \/ UsersFail(r)
      PROVE FormInv'
  BY <1>2 DEF AnswerUsers, DeliverUsers, UsersFail, FormInv
<1>3. CASE ShowCreateUserModal
  \* a new form and a new pending timeout: binds' > 0
  BY <1>3 DEF ShowCreateUserModal, FormInv
<1>4. CASE BindFire
  \* the last timeout to fire on a create form binds a listener to it
  BY <1>4 DEF BindFire, FormInv
<1>5. CASE ShowVoteStatus
  BY <1>5 DEF ShowVoteStatus, Issue, FormInv
<1>6. CASE CloseModal
  BY <1>6 DEF CloseModal, FormInv
<1>7. ASSUME NEW a \in Accounts, Submit(a) \/ DeleteUser(a) PROVE FormInv'
  BY <1>7 DEF Submit, DeleteUser, Issue, FormInv
<1>8. ASSUME NEW k \in BagToSet(calls),
             ServeCall(k) \/ CreateDone(k) \/ DeleteDone(k)
      PROVE FormInv'
  BY <1>8 DEF ServeCall, CreateDone, DeleteDone, Resume, FormInv
<1>9. ASSUME NEW k \in BagToSet(calls), VoteDone(k) PROVE FormInv'
  \* a vote-status modal replaces the form: body' is "vote" or unchanged
  <2>1. CASE k.reply = "ok"
    BY <1>9, <2>1 DEF VoteDone, FormInv
  <2>2. CASE k.reply # "ok"
    BY <1>9, <2>2 DEF VoteDone, FormInv
  <2> QED BY <2>1, <2>2
<1>10. CASE UNCHANGED uaVars
  BY <1>10 DEF uaVars, FormInv
<1> QED BY <1>1, <1>2, <1>3, <1>4, <1>5, <1>6, <1>7, <1>8, <1>9, <1>10 DEF Next

(***************************************************************************)
(* For all accounts and bounds: a create form on screen whose binding      *)
(* timeouts (showCreateUserModal's setTimeout(bind, 50)) have all fired    *)
(* has a submit listener, whatever vote-status modals, closes and reopens  *)
(* interleaved with them.                                                  *)
(***************************************************************************)
THEOREM CreateFormBoundHolds == Spec => []CreateFormBound
<1>1. FormInv => CreateFormBound
  BY DEF FormInv, CreateFormBound
<1> QED BY <1>1, InitFormInv, NextFormInv, PTL DEF Spec
=============================================================================
