------------------------------- MODULE Accounts -------------------------------
(***************************************************************************)
(* How people come to have an account: the signup page and its route, the   *)
(* console's "add user", sign-ins, and the platform roles.  An account is   *)
(* in Keycloak, which allows one per email; users and tenants are rows.     *)
(* Nothing spans the two, so a route that fails half-way undoes by hand     *)
(* what it did in Keycloak.                                                 *)
(*                                                                         *)
(* A visitor is known by the email of the form.  Requests run at once; each *)
(* call to Keycloak and each transaction is a step, which may fail, and the *)
(* process may be killed between any two.                                   *)
(***************************************************************************)
EXTENDS Integers, FiniteSets

CONSTANTS
  Emails, Slugs,
  RootEmail,   \* the email of the first super admin
  MaxIds,      \* bound on the ids that Keycloak gives its users, one for each creation
  Requests,    \* requests that may run at once
  None, Pending, \* Pending: a users row whose account is not known yet
  MaxRequests  \* bound on the requests

Ids  == 1..MaxIds
Root == 1  \* the account of the first super admin

ASSUME AccountAssumption ==
  /\ MaxIds \in Nat \ {0} /\ RootEmail \in Emails
  /\ None \notin Ids \cup Emails \cup Slugs \cup Requests /\ Pending \notin Ids \cup {None}
  /\ MaxRequests \in Nat

VARIABLES
  account,   \* the email of each Keycloak user that exists
  used,      \* the last id that was given
  row,       \* the externalId of each email's users row, None without one
  tenant,    \* the account each tenant was signed up with, None without a tenant
  recorded,  \* tenants whose provisioning is queued, or recorded as failed
  group,     \* the Keycloak group of the super admins
  session,   \* accounts whose session says that they are super admins
  page,      \* each visitor's signup page
  request,   \* the requests that are being handled
  arrivals,  \* how many there were
  refused,   \* accounts whose creator was answered with an error (history)
  kept,      \* ... of these, where undoing failed or came too late (history)
  raced      \* two super admins were removed at once, or a new one was undone (history)

inKeycloak == <<account, used, group>>
accountRows == <<row, tenant, recorded>>
accountHistory == <<refused, kept, raced>>
accountVars == <<inKeycloak, accountRows, session, page, request, arrivals, accountHistory>>

Idle == [op |-> "idle", email |-> RootEmail, slug |-> None, id |-> None, made |-> FALSE]
Ops == {"idle", "signup", "store", "enqueue", "record", "undo", "lookup", "reuse", "insert",
        "mail", "signin", "grant", "revoke"}

SignupPage ==
  [step : {"company", "account", "sending", "done"}, slug : Slugs \cup {None},
   request : Requests \cup {None}]
AccountRequest ==
  [op : Ops, email : Emails, slug : Slugs \cup {None}, id : Ids \cup {None}, made : BOOLEAN]

AccountsTypeOK ==
  /\ account \in [Ids -> Emails \cup {None}] /\ used \in Ids
  /\ row \in [Emails -> Ids \cup {None, Pending}]
  /\ tenant \in [Slugs -> Ids \cup {None}] /\ recorded \in SUBSET Slugs
  /\ group \in SUBSET Ids /\ session \in SUBSET Ids
  /\ page \in [Emails -> SignupPage] /\ request \in [Requests -> AccountRequest]
  /\ arrivals \in 0..MaxRequests
  /\ refused \in SUBSET Ids /\ kept \in SUBSET Ids /\ raced \in BOOLEAN

AccountsInit ==
  /\ account = [k \in Ids |-> IF k = Root THEN RootEmail ELSE None] /\ used = Root
  /\ row = [e \in Emails |-> IF e = RootEmail THEN Root ELSE None]
  /\ tenant = [s \in Slugs |-> None] /\ recorded = {}
  /\ group = {Root} /\ session = {Root}
  /\ page = [e \in Emails |-> [step |-> "company", slug |-> None, request |-> None]]
  /\ request = [q \in Requests |-> Idle] /\ arrivals = 0
  /\ refused = {} /\ kept = {} /\ raced = FALSE

-------------------------------------------------------------------------------
AccountsOf(e) == {k \in Ids : account[k] = e}

Arrives(q, r) ==
  /\ request[q].op = "idle" /\ arrivals < MaxRequests
  /\ arrivals' = arrivals + 1
  /\ request' = [request EXCEPT ![q] = r]
GoesOn(q, r) == request' = [request EXCEPT ![q] = r] /\ UNCHANGED arrivals

\* A page shows the answer to the request it waits for, and no other.
Shows(q, step) ==
  page' = [e \in Emails |->
    IF page[e].step = "sending" /\ page[e].request = q
    THEN [page[e] EXCEPT !.step = step, !.request = None] ELSE page[e]]

\* The account a request made, if it has made one.
Made(q) == IF request[q].made THEN {request[q].id} ELSE {}

\* An answer with an error: the form is shown again, whatever it says.
Refuses(q) ==
  /\ GoesOn(q, Idle) /\ Shows(q, "account")
  /\ refused' = refused \cup Made(q)

\* Keycloak makes a user, unless there is one with the email.
MakeAccount(e, k) ==
  /\ AccountsOf(e) = {} /\ k = used + 1
  /\ account' = [account EXCEPT ![k] = e] /\ used' = k
  /\ UNCHANGED group
DropAccount(k) ==
  /\ account' = [account EXCEPT ![k] = None] /\ group' = group \ {k}
  /\ UNCHANGED used

\* The process is killed: nobody is answered, and nothing is undone.
Crash(q) ==
  /\ request[q].op # "idle"
  /\ Refuses(q)
  /\ kept' = kept \cup Made(q)
  /\ UNCHANGED <<inKeycloak, accountRows, session, raced>>

\* A step fails before it did anything, and there is nothing to undo.
Fails(q) ==
  /\ request[q].op \in {"signup", "lookup", "reuse", "signin", "grant", "revoke"}
  /\ Refuses(q)
  /\ UNCHANGED <<inKeycloak, accountRows, session, kept, raced>>

\* A call to Keycloak makes the user, and its answer is lost.
AnswerLost(q, k) ==
  /\ request[q].op \in {"signup", "reuse"} /\ request[q].id = None
  /\ MakeAccount(request[q].email, k)
  /\ GoesOn(q, Idle) /\ Shows(q, "account")
  /\ refused' = refused \cup {k} /\ kept' = kept \cup {k}
  /\ UNCHANGED <<accountRows, session, raced>>

-------------------------------------------------------------------------------
(* The signup page *)

ChooseCompany(e, s) ==
  /\ page[e].step = "company"
  /\ page' = [page EXCEPT ![e] = [@ EXCEPT !.step = "account", !.slug = s]]
  /\ UNCHANGED <<inKeycloak, accountRows, session, request, arrivals, accountHistory>>

GoBack(e) ==
  /\ page[e].step = "account"
  /\ page' = [page EXCEPT ![e].step = "company"]
  /\ UNCHANGED <<inKeycloak, accountRows, session, request, arrivals, accountHistory>>

\* The route looks for the slug; when it is taken the page does not move.
Submit(e, q) ==
  /\ page[e].step = "account" /\ tenant[page[e].slug] = None
  /\ Arrives(q, [Idle EXCEPT !.op = "signup", !.email = e, !.slug = page[e].slug])
  /\ page' = [page EXCEPT ![e] = [@ EXCEPT !.step = "sending", !.request = q]]
  /\ UNCHANGED <<inKeycloak, accountRows, session, accountHistory>>

\* The connection breaks: the page asks to try again, and the route goes on.
NetworkError(e) ==
  /\ page[e].step = "sending"
  /\ page' = [page EXCEPT ![e] = [@ EXCEPT !.step = "account", !.request = None]]
  /\ UNCHANGED <<inKeycloak, accountRows, session, request, arrivals, accountHistory>>

-------------------------------------------------------------------------------
(* POST /api/signup *)

CreateAccount(q, k) ==
  /\ request[q].op = "signup"
  /\ MakeAccount(request[q].email, k)
  /\ GoesOn(q, [request[q] EXCEPT !.op = "store", !.id = k, !.made = TRUE])
  /\ UNCHANGED <<accountRows, session, page, accountHistory>>

\* One transaction makes the tenant, its admin's row if there is none, the
\* membership and the binding: the slug must still be free.
StoreTenant(q) ==
  LET e == request[q].email  s == request[q].slug IN
  /\ request[q].op = "store" /\ tenant[s] = None
  /\ tenant' = [tenant EXCEPT ![s] = request[q].id]
  /\ row' = IF row[e] = None THEN [row EXCEPT ![e] = Pending] ELSE row
  /\ GoesOn(q, [request[q] EXCEPT !.op = "enqueue"])
  /\ UNCHANGED <<inKeycloak, recorded, session, page, accountHistory>>

\* Mutant of StoreFails: the account is left.
StoreFailsAndAnswers(q) ==
  /\ request[q].op = "store"
  /\ Refuses(q)
  /\ UNCHANGED <<inKeycloak, accountRows, session, kept, raced>>

\* The slug is taken by now, or the database fails.
StoreFails(q) ==
  /\ request[q].op = "store"
  /\ GoesOn(q, [request[q] EXCEPT !.op = "undo"])
  /\ UNCHANGED <<inKeycloak, accountRows, session, page, accountHistory>>

Welcomes(q) == GoesOn(q, Idle) /\ Shows(q, "done") /\ UNCHANGED <<inKeycloak, session, accountHistory>>

Enqueue(q) ==
  /\ request[q].op = "enqueue"
  /\ recorded' = recorded \cup {request[q].slug}
  /\ Welcomes(q)
  /\ UNCHANGED <<row, tenant>>

EnqueueFails(q) ==
  /\ request[q].op = "enqueue"
  /\ GoesOn(q, [request[q] EXCEPT !.op = "record"])
  /\ UNCHANGED <<inKeycloak, accountRows, session, page, accountHistory>>

\* Mutant of RecordFailure: the failure is logged and nothing more.
RecordNothing(q) ==
  /\ request[q].op = "record"
  /\ Welcomes(q)
  /\ UNCHANGED accountRows

RecordFailure(q) ==
  /\ request[q].op = "record"
  /\ recorded' = recorded \cup {request[q].slug}
  /\ Welcomes(q)
  /\ UNCHANGED <<row, tenant>>

\* The update that records it fails: the handler for errors undoes the signup,
\* of which only the account can be undone by now.
RecordFails(q) ==
  /\ request[q].op = "record"
  /\ GoesOn(q, [request[q] EXCEPT !.op = "undo"])
  /\ kept' = kept \cup Made(q)
  /\ UNCHANGED <<inKeycloak, accountRows, session, page, refused, raced>>

\* The account this request made is deleted, and it answers with an error.
Undo(q) ==
  /\ request[q].op = "undo"
  /\ DropAccount(request[q].id)
  /\ Refuses(q)
  /\ raced' = (raced \/ request[q].id \in group)
  /\ UNCHANGED <<accountRows, session, kept>>

\* A deletion that fails is not noticed.
UndoFails(q) ==
  /\ request[q].op = "undo"
  /\ Refuses(q)
  /\ kept' = kept \cup Made(q)
  /\ UNCHANGED <<inKeycloak, accountRows, session, raced>>

-------------------------------------------------------------------------------
(* POST /api/admin/users *)

AddUser(q, e) ==
  /\ session # {} /\ row[e] = None
  /\ Arrives(q, [Idle EXCEPT !.op = "lookup", !.email = e])
  /\ UNCHANGED <<inKeycloak, accountRows, session, page, accountHistory>>

\* An account that exists is taken over; a lookup that fails finds none.
LookUp(q) ==
  /\ request[q].op = "lookup"
  /\ \E k \in AccountsOf(request[q].email) \cup {None} :
       GoesOn(q, IF k = None THEN [request[q] EXCEPT !.op = "reuse"]
                 ELSE [request[q] EXCEPT !.op = "insert", !.id = k])
  /\ UNCHANGED <<inKeycloak, accountRows, session, page, accountHistory>>

CreatePending(q, k) ==
  /\ request[q].op = "reuse"
  /\ MakeAccount(request[q].email, k)
  /\ GoesOn(q, [request[q] EXCEPT !.op = "insert", !.id = k, !.made = TRUE])
  /\ UNCHANGED <<accountRows, session, page, accountHistory>>

\* After the row there is only the mail, which may fail.
InsertRow(q) ==
  /\ request[q].op = "insert" /\ row[request[q].email] = None
  /\ row' = [row EXCEPT ![request[q].email] = request[q].id]
  /\ GoesOn(q, Idle)
  /\ UNCHANGED <<inKeycloak, tenant, recorded, session, page, accountHistory>>

\* There is a row by now, or the database fails.  Only an account that this
\* request made is deleted.
InsertFails(q) ==
  /\ request[q].op = "insert"
  /\ GoesOn(q, IF request[q].made THEN [request[q] EXCEPT !.op = "undo"] ELSE Idle)
  /\ UNCHANGED <<inKeycloak, accountRows, session, page, accountHistory>>

\* A team invitation makes a row for an email that has none.
InviteRow(e) ==
  /\ arrivals < MaxRequests /\ arrivals' = arrivals + 1
  /\ row[e] = None /\ row' = [row EXCEPT ![e] = Pending]
  /\ UNCHANGED <<inKeycloak, tenant, recorded, session, page, request, accountHistory>>

-------------------------------------------------------------------------------
(* Sign-ins, and the platform roles *)

\* The session has the groups of this moment, for as long as it lasts.
SignIn(q, k) ==
  /\ account[k] # None
  /\ Arrives(q, [Idle EXCEPT !.op = "signin", !.email = account[k], !.id = k])
  /\ session' = IF k \in group THEN session \cup {k} ELSE session \ {k}
  /\ UNCHANGED <<inKeycloak, accountRows, page, accountHistory>>

\* events.signIn: the row with the email is claimed, or made.
ClaimRow(q) ==
  /\ request[q].op = "signin"
  /\ row' = [row EXCEPT ![request[q].email] = request[q].id]
  /\ GoesOn(q, Idle)
  /\ UNCHANGED <<inKeycloak, tenant, recorded, session, page, accountHistory>>

SessionEnds(k) ==
  /\ session' = session \ {k} /\ k \in session
  /\ UNCHANGED <<inKeycloak, accountRows, page, request, arrivals, accountHistory>>

\* POST /api/admin/roles/[role]/members: the account is looked up by its email.
Grant(q, k) ==
  /\ session # {} /\ account[k] # None
  /\ Arrives(q, [Idle EXCEPT !.op = "grant", !.id = k])
  /\ UNCHANGED <<inKeycloak, accountRows, session, page, accountHistory>>

AddToGroup(q) ==
  /\ request[q].op = "grant" /\ account[request[q].id] # None
  /\ group' = group \cup {request[q].id}
  /\ GoesOn(q, Idle)
  /\ UNCHANGED <<account, used, accountRows, session, page, accountHistory>>

\* Mutant of Revoke: the last super admin is looked for among all but one.
RevokeUnchecked(q, k) ==
  /\ session # {}
  /\ ~(Cardinality(group) < 1 /\ k \in group)
  /\ Arrives(q, [Idle EXCEPT !.op = "revoke", !.id = k])
  /\ UNCHANGED <<inKeycloak, accountRows, session, page, accountHistory>>

\* DELETE .../members/[userId] refuses to remove the last super admin ...
Revoke(q, k) ==
  /\ session # {}
  /\ ~(Cardinality(group) <= 1 /\ k \in group)
  /\ Arrives(q, [Idle EXCEPT !.op = "revoke", !.id = k])
  /\ UNCHANGED <<inKeycloak, accountRows, session, page, accountHistory>>

\* ... and then removes this one.
RemoveFromGroup(q) ==
  /\ request[q].op = "revoke"
  /\ group' = group \ {request[q].id}
  /\ raced' = (raced \/ \E o \in Requests \ {q} : request[o].op = "revoke")
  /\ GoesOn(q, Idle)
  /\ UNCHANGED <<account, used, accountRows, session, page, refused, kept>>

-------------------------------------------------------------------------------
AccountsNext ==
  \/ \E e \in Emails :
       \/ \E s \in Slugs : ChooseCompany(e, s)
       \/ \E q \in Requests : Submit(e, q) \/ AddUser(q, e)
       \/ GoBack(e) \/ NetworkError(e) \/ InviteRow(e)
  \/ \E q \in Requests :
       \/ Crash(q) \/ Fails(q)
       \/ StoreTenant(q) \/ StoreFails(q)
       \/ Enqueue(q) \/ EnqueueFails(q) \/ RecordFailure(q) \/ RecordFails(q)
       \/ Undo(q) \/ UndoFails(q)
       \/ LookUp(q) \/ InsertRow(q) \/ InsertFails(q)
       \/ ClaimRow(q) \/ AddToGroup(q) \/ RemoveFromGroup(q)
       \/ \E k \in Ids :
            \/ AnswerLost(q, k) \/ CreateAccount(q, k) \/ CreatePending(q, k)
            \/ SignIn(q, k) \/ Grant(q, k) \/ Revoke(q, k)
  \/ \E k \in Ids : SessionEnds(k)

AccountsSpec == AccountsInit /\ [][AccountsNext]_accountVars

-------------------------------------------------------------------------------
(* Properties *)

\* A visitor who was told that the workspace is ready has one: the tenant is
\* there, the account that signed it up exists and its users row too, and its
\* provisioning is queued or recorded as failed.  No other request undoes any
\* of it (signup/route.ts).
WelcomedIsWhole ==
  \A e \in Emails : page[e].step = "done" =>
    LET s == page[e].slug IN
    /\ tenant[s] # None /\ account[tenant[s]] = e
    /\ row[e] # None /\ s \in recorded

\* Whoever was told that the signup, or the adding of a user, failed can try
\* again: neither the account nor a tenant of it is left, unless the process
\* died, an answer was lost, the deletion failed, or the error came after the
\* tenant was committed (signup/route.ts, admin/users/route.ts).
RefusedLeavesNothing ==
  \A k \in refused \ kept : account[k] = None /\ \A s \in Slugs : tenant[s] # k

\* The platform keeps a super admin, unless two are removed at once, or the
\* account of one is undone because adding it fails after all
\* (admin/roles/[role]/members/[userId]/route.ts).
AdminRemains == group = {} => raced
===============================================================================
