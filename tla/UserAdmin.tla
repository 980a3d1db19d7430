----------------------------- MODULE UserAdmin -----------------------------
(***************************************************************************)
(* The users page and the shared modal of the dashboard (dashboard.js):   *)
(* loadUsers and its table, showCreateUserModal with the submit handler   *)
(* it binds 50 ms later, deleteUser, showVoteStatus, openModal and        *)
(* closeModal.  Every request completes in any order.  The backend keeps  *)
(* the set of accounts: a create of an existing name and a delete of a    *)
(* missing account fail.  The modal body is the last HTML openModal put   *)
(* there; closeModal only hides it, so a hidden create form is still in   *)
(* the document.                                                          *)
(***************************************************************************)
EXTENDS Naturals, Bags, BagsExt

CONSTANTS Accounts,           \* usernames
          Self,               \* API.getUser().username
          MaxLoads,           \* bound on in-flight getUsers calls
          MaxCalls,           \* bound on in-flight create / delete / vote-status calls
          MaxBinds            \* bound on pending 50 ms binding timeouts

ASSUME UserAdminAssumption ==
  /\ Self \in Accounts
  /\ MaxLoads \in Nat \ {0}
  /\ MaxCalls \in Nat
  /\ MaxBinds \in Nat

VARIABLES
  page,         \* state.currentPage
  server,       \* the backend's accounts
  table,        \* #users-tbody: the rows rendered, or the error row
  loads,        \* bag of in-flight API.getUsers() calls
  modalOpen,    \* #modal-overlay lacks the class "hidden"
  body,         \* what #modal-body holds: "none", "create" (a form) or "vote"
  handlers,     \* submit listeners bound to the create form in #modal-body
  binds,        \* showCreateUserModal's pending setTimeout(bind, 50)
  calls         \* bag of in-flight createUser / deleteUser / getVoteStatus calls

uaVars == <<page, server, table, loads, modalOpen, body, handlers, binds, calls>>

LoadCall == [st : {"asked", "ok"}, rows : SUBSET Accounts]
Call == [op : {"create", "delete", "vote"}, acct : Accounts,
         reply : {"asked", "ok", "failed"}]
Table == [ok : BOOLEAN, rows : SUBSET Accounts]

AskUsers == [st |-> "asked", rows |-> {}]

\* loadUsers() when c holds: one more getUsers call in flight.
LoadUsersIf(c) ==
  /\ c => BagCardinality(loads) < MaxLoads
  /\ loads' = IF c THEN BagAdd(loads, AskUsers) ELSE loads

\* One more mutating or vote-status call in flight.
Issue(k) ==
  /\ BagCardinality(calls) < MaxCalls
  /\ calls' = BagAdd(calls, k)

\* Replace call k by its settled form.
Settle(k, r) == BagAdd(BagRemove(calls, k), [k EXCEPT !.reply = r])

-----------------------------------------------------------------------------
(* The users page has just been opened: one getUsers call out.             *)
Init ==
  /\ page = "users"
  /\ server \in {a \in SUBSET Accounts : Self \in a}
  /\ table = [ok |-> TRUE, rows |-> {}]
  /\ loads = SetToBag({AskUsers})
  /\ modalOpen = FALSE
  /\ body = "none"
  /\ handlers = 0
  /\ binds = 0
  /\ calls = EmptyBag

(* navigateTo(p): the users page calls loadUsers().                        *)
Navigate(p) ==
  /\ page' = p
  /\ LoadUsersIf(p = "users")
  /\ UNCHANGED <<server, table, modalOpen, body, handlers, binds, calls>>

(* The backend answers getUsers with its accounts now.                     *)
AnswerUsers(r) ==
  /\ r.st = "asked"
  /\ loads' = BagAdd(BagRemove(loads, r), [st |-> "ok", rows |-> server])
  /\ UNCHANGED <<page, server, table, modalOpen, body, handlers, binds, calls>>

(* loadUsers resumes: renderUsersTable(users) ...                          *)
DeliverUsers(r) ==
  /\ r.st = "ok"
  /\ loads' = BagRemove(loads, r)
  /\ table' = [ok |-> TRUE, rows |-> r.rows]
  /\ UNCHANGED <<page, server, modalOpen, body, handlers, binds, calls>>

(* ... or the call rejects and the catch block renders the error row.      *)
UsersFail(r) ==
  /\ r.st = "asked"
  /\ loads' = BagRemove(loads, r)
  /\ table' = [ok |-> FALSE, rows |-> {}]
  /\ UNCHANGED <<page, server, modalOpen, body, handlers, binds, calls>>

\* A mutant: the listener is bound synchronously, before openModal
\* replaces the form, so it lands on the old form.
ShowCreateUserModalBindFirst ==
  /\ page = "users"
  /\ binds < MaxBinds
  /\ modalOpen' = TRUE
  /\ body' = "create"
  /\ handlers' = 0
  /\ UNCHANGED <<page, server, table, loads, calls, binds>>

(* The "Create User" button: openModal with a fresh form (no listener on   *)
(* it yet), then setTimeout(bind, 50).                                     *)
ShowCreateUserModal ==
  /\ page = "users"
  /\ binds < MaxBinds
  /\ modalOpen' = TRUE
  /\ body' = "create"
  /\ handlers' = 0
  /\ binds' = binds + 1
  /\ UNCHANGED <<page, server, table, loads, calls>>

(* The 50 ms timeout: $("#create-user-form") is whatever form #modal-body  *)
(* holds now; if there is one, a submit listener is added to it.           *)
BindFire ==
  /\ binds > 0
  /\ binds' = binds - 1
  /\ handlers' = IF body = "create" THEN handlers + 1 ELSE handlers
  /\ UNCHANGED <<page, server, table, loads, modalOpen, body, calls>>

(* The user submits the form on screen for account a: every listener     *)
(* bound to it calls API.createUser (with none, the browser's own submit  *)
(* would reload the page, which this model leaves out).                    *)
Submit(a) ==
  /\ modalOpen /\ body = "create"
  /\ handlers > 0
  /\ BagCardinality(calls) + handlers <= MaxCalls
  /\ calls' = calls (+) [k \in {[op |-> "create", acct |-> a, reply |-> "asked"]}
                           |-> handlers]
  /\ UNCHANGED <<page, server, table, loads, modalOpen, body, handlers, binds>>

(* A Delete button of a rendered row, confirmed; deleteUser refuses the   *)
(* signed-in user's own row with a toast.                                  *)
DeleteUser(a) ==
  /\ page = "users" /\ table.ok /\ a \in table.rows
  /\ a # Self
  /\ Issue([op |-> "delete", acct |-> a, reply |-> "asked"])
  /\ UNCHANGED <<page, server, table, loads, modalOpen, body, handlers, binds>>

(* A vote-status button: showVoteStatus awaits API.getVoteStatus.          *)
ShowVoteStatus ==
  /\ Issue([op |-> "vote", acct |-> Self, reply |-> "asked"])
  /\ UNCHANGED <<page, server, table, loads, modalOpen, body, handlers, binds>>

(* Escape, the close button or a click on the overlay: closeModal().      *)
CloseModal ==
  /\ modalOpen
  /\ modalOpen' = FALSE
  /\ UNCHANGED <<page, server, table, loads, body, handlers, binds, calls>>

(* The backend handles a create or delete (duplicates and missing         *)
(* accounts fail) or answers a vote-status request.                        *)
ServeCall(k) ==
  /\ k.reply = "asked"
  /\ \/ /\ k.op = "create" /\ k.acct \notin server
        /\ server' = server \cup {k.acct}
        /\ calls' = Settle(k, "ok")
     \/ /\ k.op = "delete" /\ k.acct \in server
        /\ server' = server \ {k.acct}
        /\ calls' = Settle(k, "ok")
     \/ /\ k.op = "vote"
        /\ calls' = Settle(k, "ok")
        /\ UNCHANGED server
     \/ /\ calls' = Settle(k, "failed")
        /\ UNCHANGED server
  /\ UNCHANGED <<page, table, loads, modalOpen, body, handlers, binds>>

\* The awaiting handler of call k resumes: k leaves the bag.
Resume(k) ==
  /\ k.reply # "asked"
  /\ calls' = BagRemove(calls, k)

(* The create listener resumes: on success a toast, closeModal() (whatever *)
(* modal is on screen now) and loadUsers(); on failure a toast.            *)
CreateDone(k) ==
  /\ k.op = "create" /\ Resume(k)
  /\ LoadUsersIf(k.reply = "ok")
  /\ modalOpen' = (modalOpen /\ k.reply # "ok")
  /\ UNCHANGED <<page, server, table, body, handlers, binds>>

(* deleteUser resumes: on success a toast and loadUsers().                 *)
DeleteDone(k) ==
  /\ k.op = "delete" /\ Resume(k)
  /\ LoadUsersIf(k.reply = "ok")
  /\ UNCHANGED <<page, server, table, modalOpen, body, handlers, binds>>

(* showVoteStatus resumes: on success openModal with the vote bars, which  *)
(* replaces whatever #modal-body held (a create form and its listeners     *)
(* included); on failure a toast.                                          *)
VoteDone(k) ==
  /\ k.op = "vote" /\ Resume(k)
  /\ IF k.reply = "ok"
       THEN /\ modalOpen' = TRUE /\ body' = "vote" /\ handlers' = 0
       ELSE UNCHANGED <<modalOpen, body, handlers>>
  /\ UNCHANGED <<page, server, table, loads, binds>>

Next ==
  \/ \E p \in {"users", "other"} : Navigate(p)
  \/ \E r \in BagToSet(loads) : AnswerUsers(r) \/ DeliverUsers(r) \/ UsersFail(r)
  \/ ShowCreateUserModal \/ BindFire \/ ShowVoteStatus \/ CloseModal
  \/ \E a \in Accounts : Submit(a) \/ DeleteUser(a)
  \/ \E k \in BagToSet(calls) : ServeCall(k) \/ CreateDone(k) \/ DeleteDone(k) \/ VoteDone(k)

Spec == Init /\ [][Next]_uaVars

-----------------------------------------------------------------------------
TypeOK ==
  /\ page \in {"users", "other"}
  /\ server \in SUBSET Accounts
  /\ table \in Table
  /\ BagToSet(loads) \subseteq LoadCall
  /\ modalOpen \in BOOLEAN
  /\ body \in {"none", "create", "vote"}
  /\ handlers \in Nat
  /\ binds \in 0..MaxBinds
  /\ BagToSet(calls) \subseteq Call

(***************************************************************************)
(* A create form on screen whose 50 ms binding timeouts have all fired has *)
(* a submit listener (showCreateUserModal): the setTimeout looks the form  *)
(* up when it fires, so however opens, vote-status modals and closes      *)
(* interleave with it, submitting the visible form runs createUser rather *)
(* than the browser's default submission.                                  *)
(***************************************************************************)
CreateFormBound ==
  (modalOpen /\ body = "create" /\ binds = 0) => handlers > 0

(***************************************************************************)
(* One submit of the create form sends one createUser request: at most one *)
(* listener is bound to the form on screen.  The code does not keep it:   *)
(* two clicks on "Create User" within 50 ms arm two timeouts, and both    *)
(* find the second form.                                                   *)
(***************************************************************************)
SubmitOnce == body = "create" => handlers <= 1
=============================================================================
