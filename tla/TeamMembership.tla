---------------------------- MODULE TeamMembership ----------------------------
(***************************************************************************)
(* The members of one tenant and their roles: invitations and their        *)
(* acceptance, role changes, app roles, custom roles and their             *)
(* permissions, the tenant's SCIM endpoint, and sign-ins whose Keycloak    *)
(* groups name the tenant.  Requests run at once.  Each one reads what it  *)
(* checks before its transaction, and the transactions run at READ         *)
(* COMMITTED: a statement sees what had been committed when it started.    *)
(*                                                                         *)
(* A transaction is one step, its commit, with a step before it for a      *)
(* statement whose reading of the tables the outcome rests on: the count   *)
(* of the seats and the deletion of the old rows.                          *)
(***************************************************************************)
EXTENDS Integers, FiniteSets

CONSTANTS
  Users, Owner,    \* Owner signed up and is the first member
  SystemRoles, Default,  \* base roles of every tenant; a sign-in gives Default
  CustomRoles,     \* ids of the tenant's own roles
  First,           \* the custom role there is at the start
  AppRoles,        \* roles of connected apps, which come on top
  Names,           \* names of custom roles; a system role is its own name
  Perms,
  Limits,          \* the seat limits of the plans; one of the number of users stands for none
  Requests,        \* requests that may run at once
  None,
  MaxListed,       \* bound on the users a SCIM request lists
  MaxRequests      \* bound on requests and on changes of the plan and the instances

Roles == SystemRoles \cup CustomRoles
Lists == {us \in SUBSET Users : Cardinality(us) <= MaxListed}
AllNames == SystemRoles \cup Names

ASSUME TeamAssumption ==
  /\ IsFiniteSet(Users) /\ Owner \in Users
  /\ IsFiniteSet(Requests) /\ Requests # {}
  /\ Default \in SystemRoles /\ First \in CustomRoles /\ Names \ SystemRoles # {}
  /\ SystemRoles \cap CustomRoles = {} /\ AppRoles \cap Roles = {}
  /\ None \notin Roles \cup AllNames
  /\ Limits \subseteq Nat \ {0} /\ Limits # {}
  /\ MaxListed \in Nat /\ MaxRequests \in Nat

VARIABLES
  status,    \* of each user's membership
  bindings,  \* the base and app roles of each user
  name,      \* of each custom role, None when there is no such row
  perms,     \* the permissions of each custom role
  active,    \* the app roles whose app has an active instance
  limit,     \* the seat limit of the subscription's plan
  request,   \* the requests that are being handled
  requests,  \* how many there were, with the changes of the plan and the instances
  peak,      \* the highest limit so far (history)
  walkIns,   \* users who became members without an invitation (history)
  due,       \* the base role each user was last given (history)
  disturbed, \* users whose roles were changed otherwise, or twice at once (history)
  namesakes, \* names that were taken twice at once, or over SCIM (history)
  asked,     \* the permissions each role was last given (history)
  mixed      \* roles that were edited twice at once (history)

members == <<status, walkIns>>
roles   == <<name, perms, namesakes, asked, mixed>>
given   == <<bindings, due, disturbed>>
plan    == <<limit, peak>>
vars    == <<members, roles, given, active, plan, request, requests>>

Idle == [op |-> "idle", user |-> Owner, role |-> None, want |-> None, picks |-> {}, old |-> {},
         limit |-> 0]
Ops == {"idle", "invite", "add", "change", "replace", "assign", "unassign", "create", "delete",
        "edit", "rewrite", "accept", "signin", "fill"}

RequestRecord ==
  [op : Ops, user : Users, role : Roles \cup AppRoles \cup {None},
   want : AllNames \cup AppRoles \cup {None},
   picks : SUBSET (Perms \cup AppRoles \cup Users), old : SUBSET (Roles \cup AppRoles \cup Perms),
   limit : Limits \cup {0}]

MembersOK ==
  /\ status \in [Users -> {"none", "INVITED", "ACTIVE"}] /\ walkIns \in SUBSET Users

GivenOK ==
  /\ bindings \in [Users -> SUBSET (Roles \cup AppRoles)]
  /\ due \in [Users -> Roles \cup {None}] /\ disturbed \in SUBSET Users

RolesOK ==
  /\ name \in [CustomRoles -> AllNames \cup {None}] /\ namesakes \in SUBSET AllNames
  /\ perms \in [CustomRoles -> SUBSET Perms] /\ asked \in [CustomRoles -> SUBSET Perms]
  /\ mixed \in SUBSET CustomRoles

RequestsOK ==
  /\ request \in [Requests -> RequestRecord] /\ requests \in 0..MaxRequests
  /\ active \in SUBSET AppRoles /\ limit \in Limits /\ peak \in Limits

TypeOK == MembersOK /\ GivenOK /\ RolesOK /\ RequestsOK

Init ==
  /\ status = [u \in Users |-> IF u = Owner THEN "ACTIVE" ELSE "none"]
  /\ bindings = [u \in Users |-> IF u = Owner THEN {Default} ELSE {}]
  /\ name \in [CustomRoles -> (Names \ SystemRoles) \cup {None}]
  /\ \A c \in CustomRoles : name[c] = None <=> c # First
  /\ perms = [c \in CustomRoles |-> {}] /\ asked = perms
  /\ active = AppRoles
  /\ limit \in Limits /\ peak = limit
  /\ request = [q \in Requests |-> Idle] /\ requests = 0
  /\ walkIns = {}
  /\ due = [u \in Users |-> IF u = Owner THEN Default ELSE None]
  /\ disturbed = {} /\ namesakes = {} /\ mixed = {}

-------------------------------------------------------------------------------
Members == {u \in Users : status[u] # "none"}
Exists(r) == r \in SystemRoles \/ (r \in CustomRoles /\ name[r] # None)

\* The rows that a lookup by name may find; it takes the first, in no order.
Named(n) == ({n} \cap SystemRoles) \cup {c \in CustomRoles : name[c] = n}

\* A request arrives, or goes on; it ends with its answer, whatever that is.
Arrives(q, r) ==
  /\ request[q].op = "idle" /\ requests < MaxRequests
  /\ requests' = requests + 1
  /\ request' = [request EXCEPT ![q] = r]
GoesOn(q, r) == request' = [request EXCEPT ![q] = r] /\ UNCHANGED requests
Answers(q) == GoesOn(q, Idle)

\* Another request has deleted the base roles it found of user u and has yet
\* to commit: it will not see what is written now.
Replacing(q, u) == \E o \in Requests \ {q} : request[o].op = "replace" /\ request[o].user = u

\* A request fails at any of its steps: its transaction is rolled back.
Fails(q) ==
  /\ request[q].op # "idle"
  /\ Answers(q)
  /\ UNCHANGED <<members, roles, given, active, plan>>

\* Stripe or the console changes the plan.
SetLimit(l) ==
  /\ requests < MaxRequests /\ requests' = requests + 1
  /\ limit' = l /\ l # limit
  /\ peak' = IF l > peak THEN l ELSE peak
  /\ UNCHANGED <<members, roles, given, active, request>>

\* The app's instance is activated or paused.
SetActive(a) ==
  /\ requests < MaxRequests /\ requests' = requests + 1
  /\ active' = IF a \in active THEN active \ {a} ELSE active \cup {a}
  /\ UNCHANGED <<members, roles, given, plan, request>>

-------------------------------------------------------------------------------
(* POST /api/team/invite *)

\* The seat limit is read before the transaction.
Invite(q, u, n, as) ==
  /\ Arrives(q, [Idle EXCEPT !.op = "invite", !.user = u, !.want = n, !.picks = as,
                              !.limit = limit])
  /\ UNCHANGED <<members, roles, given, active, plan>>

\* Mutant of CountSeats: the seats are compared with > instead of >=.
CountSeatsLoosely(q) ==
  /\ request[q].op = "invite"
  /\ \/ status[request[q].user] # "none"
     \/ Cardinality(Members) <= request[q].limit
  /\ GoesOn(q, [request[q] EXCEPT !.op = "add"])
  /\ UNCHANGED <<members, roles, given, active, plan>>

\* Only a new member needs a seat.
CountSeats(q) ==
  /\ request[q].op = "invite"
  /\ \/ status[request[q].user] # "none"
     \/ Cardinality(Members) < request[q].limit
  /\ GoesOn(q, [request[q] EXCEPT !.op = "add"])
  /\ UNCHANGED <<members, roles, given, active, plan>>

RejectSeat(q) ==
  /\ request[q].op = "invite"
  /\ status[request[q].user] = "none" /\ Cardinality(Members) >= request[q].limit
  /\ Answers(q)
  /\ UNCHANGED <<members, roles, given, active, plan>>

\* The membership, also one that was ACTIVE, becomes INVITED.  The role is
\* added to the ones there are, none if no role has the name.  App roles come
\* from the name or from the list, where their app must be active.
AddMember(q) ==
  LET u == request[q].user
      found == Named(request[q].want) \cup ({request[q].want} \cap AppRoles)
  IN
  /\ request[q].op = "add"
  /\ \E r \in found \cup {None} :
       /\ r = None => found = {}
       /\ bindings' = [bindings EXCEPT ![u] =
            @ \cup ({r} \ {None}) \cup (request[q].picks \cap active)]
       /\ due' = IF status[u] = "none" THEN [due EXCEPT ![u] = IF r \in Roles THEN r ELSE None]
                 ELSE due
  /\ disturbed' = IF status[u] # "none" \/ Replacing(q, u) THEN disturbed \cup {u} ELSE disturbed
  /\ status' = [status EXCEPT ![u] = "INVITED"]
  /\ Answers(q)
  /\ UNCHANGED <<walkIns, roles, active, plan>>

\* acceptInvite reads the membership; one that is ACTIVE needs nothing.
Accept(q, u) ==
  /\ status[u] = "INVITED"
  /\ Arrives(q, [Idle EXCEPT !.op = "accept", !.user = u])
  /\ UNCHANGED <<members, roles, given, active, plan>>

Activate(q) ==
  /\ request[q].op = "accept"
  /\ status' = [status EXCEPT ![request[q].user] = "ACTIVE"]
  /\ Answers(q)
  /\ UNCHANGED <<walkIns, roles, given, active, plan>>

-------------------------------------------------------------------------------
(* PATCH /api/team/members/[userId]/role *)

\* The member and the role are looked up before the transaction.
ChangeRole(q, u, r) ==
  /\ status[u] # "none" /\ Exists(r)
  /\ Arrives(q, [Idle EXCEPT !.op = "change", !.user = u, !.role = r])
  /\ UNCHANGED <<members, roles, given, active, plan>>

\* The transaction deletes the bindings it finds ...
DropBindings(q) ==
  /\ request[q].op = "change"
  /\ GoesOn(q, [request[q] EXCEPT !.op = "replace", !.old = bindings[request[q].user]])
  /\ UNCHANGED <<members, roles, given, active, plan>>

\* Mutant of BindRole: only the bindings of system roles are deleted.
BindRoleBeside(q) ==
  LET u == request[q].user  r == request[q].role
      kept == bindings[u] \ (request[q].old \cap SystemRoles)
  IN
  /\ request[q].op = "replace"
  /\ Exists(r) /\ r \notin kept
  /\ bindings' = [bindings EXCEPT ![u] = kept \cup {r}]
  /\ due' = [due EXCEPT ![u] = r]
  /\ disturbed' = IF Replacing(q, u) THEN disturbed \cup {u} ELSE disturbed
  /\ Answers(q)
  /\ UNCHANGED <<members, roles, active, plan>>

\* ... and creates one: it fails if the role is gone, or bound by now.
BindRole(q) ==
  LET u == request[q].user  r == request[q].role  kept == bindings[u] \ request[q].old IN
  /\ request[q].op = "replace"
  /\ Exists(r) /\ r \notin kept
  /\ bindings' = [bindings EXCEPT ![u] = kept \cup {r}]
  /\ due' = [due EXCEPT ![u] = r]
  /\ disturbed' = IF Replacing(q, u) THEN disturbed \cup {u} ELSE disturbed
  /\ Answers(q)
  /\ UNCHANGED <<members, roles, active, plan>>

-------------------------------------------------------------------------------
(* POST and DELETE /api/team/roles/[id]/members/[userId] *)

\* The instance of the app and the member are looked up before the transaction.
Assign(q, u, a) ==
  /\ a \in active /\ status[u] # "none"
  /\ Arrives(q, [Idle EXCEPT !.op = "assign", !.user = u, !.role = a])
  /\ UNCHANGED <<members, roles, given, active, plan>>

Unassign(q, u, a) ==
  /\ a \in active
  /\ Arrives(q, [Idle EXCEPT !.op = "unassign", !.user = u, !.role = a])
  /\ UNCHANGED <<members, roles, given, active, plan>>

SetAppRole(q) ==
  /\ request[q].op \in {"assign", "unassign"}
  /\ bindings' = [bindings EXCEPT ![request[q].user] =
       IF request[q].op = "assign" THEN @ \cup {request[q].role} ELSE @ \ {request[q].role}]
  /\ Answers(q)
  /\ UNCHANGED <<members, roles, due, disturbed, active, plan>>

-------------------------------------------------------------------------------
(* Custom roles *)

\* Ids are fresh: no row and no request has the one that is taken.
Fresh(c) == name[c] = None /\ \A q \in Requests : request[q].role # c

\* POST /api/team/roles looks for the name before its transaction.
CreateRole(q, n, ps) ==
  /\ Named(n) = {}
  /\ Arrives(q, [Idle EXCEPT !.op = "create", !.want = n, !.picks = ps])
  /\ UNCHANGED <<members, roles, given, active, plan>>

Creating(q, n) == \E o \in Requests \ {q} : request[o].op = "create" /\ request[o].want = n

InsertRole(q, c) ==
  LET n == request[q].want IN
  /\ request[q].op = "create" /\ Fresh(c)
  /\ name' = [name EXCEPT ![c] = n]
  /\ perms' = [perms EXCEPT ![c] = request[q].picks]
  /\ asked' = [asked EXCEPT ![c] = request[q].picks]
  /\ namesakes' = IF Creating(q, n) THEN namesakes \cup {n} ELSE namesakes
  /\ mixed' = mixed \ {c}
  /\ Answers(q)
  /\ UNCHANGED <<members, given, active, plan>>

\* PATCH /api/team/roles/[id] replaces the permissions, like a role change.
EditRole(q, c, ps) ==
  /\ name[c] # None
  /\ Arrives(q, [Idle EXCEPT !.op = "edit", !.role = c, !.picks = ps])
  /\ UNCHANGED <<members, roles, given, active, plan>>

DropPermissions(q) ==
  /\ request[q].op = "edit"
  /\ GoesOn(q, [request[q] EXCEPT !.op = "rewrite", !.old = perms[request[q].role]])
  /\ UNCHANGED <<members, roles, given, active, plan>>

Rewriting(q, c) == \E o \in Requests \ {q} : request[o].op = "rewrite" /\ request[o].role = c

WritePermissions(q) ==
  LET c == request[q].role  kept == perms[c] \ request[q].old IN
  /\ request[q].op = "rewrite" /\ name[c] # None
  /\ request[q].picks \cap kept = {}
  /\ perms' = [perms EXCEPT ![c] = kept \cup request[q].picks]
  /\ asked' = [asked EXCEPT ![c] = request[q].picks]
  /\ mixed' = IF Rewriting(q, c) THEN mixed \cup {c} ELSE mixed
  /\ Answers(q)
  /\ UNCHANGED <<members, given, name, namesakes, active, plan>>

\* The row, its permissions and all its bindings are deleted.
RemoveRow(c) ==
  /\ bindings' = [u \in Users |-> bindings[u] \ {c}]
  /\ due' = [u \in Users |-> IF due[u] = c THEN None ELSE due[u]]
  /\ name' = [name EXCEPT ![c] = None]
  /\ perms' = [perms EXCEPT ![c] = {}]
  /\ asked' = [asked EXCEPT ![c] = {}]
  /\ UNCHANGED <<disturbed, namesakes, mixed>>

DeleteRole(q, c) ==
  /\ name[c] # None
  /\ Arrives(q, [Idle EXCEPT !.op = "delete", !.role = c])
  /\ UNCHANGED <<members, roles, given, active, plan>>

RemoveRole(q) ==
  /\ request[q].op = "delete" /\ name[request[q].role] # None
  /\ RemoveRow(request[q].role)
  /\ Answers(q)
  /\ UNCHANGED <<members, active, plan>>

-------------------------------------------------------------------------------
(* The tenant's SCIM endpoint.  Nothing is in a transaction, no sync record is *)
(* written, and names are not checked.                                         *)

\* POST Users: the membership is ACTIVE, without a role; one there is is kept.
ScimCreateUser(u) ==
  /\ requests < MaxRequests /\ requests' = requests + 1
  /\ status' = IF status[u] = "none" THEN [status EXCEPT ![u] = "ACTIVE"] ELSE status
  /\ walkIns' = IF status[u] = "none" THEN walkIns \cup {u} ELSE walkIns
  /\ UNCHANGED <<roles, given, active, plan, request>>

\* POST Groups: the members are bound by a second statement, like those of PUT.
ScimCreateGroup(q, c, n, us) ==
  /\ Fresh(c)
  /\ Arrives(q, [Idle EXCEPT !.op = "fill", !.role = c, !.picks = us])
  /\ name' = [name EXCEPT ![c] = n]
  /\ namesakes' = namesakes \cup {n}
  /\ mixed' = mixed \ {c}
  /\ UNCHANGED <<members, given, perms, asked, active, plan>>

\* PUT Groups, and PATCH with op replace: first all bindings are deleted ...
ScimClearGroup(q, c, us) ==
  /\ name[c] # None
  /\ Arrives(q, [Idle EXCEPT !.op = "fill", !.role = c, !.picks = us])
  /\ bindings' = [u \in Users |-> bindings[u] \ {c}]
  /\ disturbed' = disturbed \cup {u \in Users : c \in bindings[u]}
  /\ UNCHANGED <<members, roles, due, active, plan>>

\* ... then the members are bound, any user will do.  PATCH with op add is this
\* statement alone, so is the end of POST.
ScimFillGroup(q) ==
  LET c == request[q].role  us == request[q].picks IN
  /\ request[q].op = "fill" /\ name[c] # None
  /\ bindings' = [u \in Users |-> IF u \in us THEN bindings[u] \cup {c} ELSE bindings[u]]
  /\ disturbed' = disturbed \cup us
  /\ Answers(q)
  /\ UNCHANGED <<members, roles, due, active, plan>>

ScimAddMembers(q, c, us) ==
  /\ name[c] # None
  /\ Arrives(q, [Idle EXCEPT !.op = "fill", !.role = c, !.picks = us])
  /\ UNCHANGED <<members, roles, given, active, plan>>

ScimRemoveMembers(c, us) ==
  /\ requests < MaxRequests /\ requests' = requests + 1
  /\ name[c] # None
  /\ bindings' = [u \in Users |-> IF u \in us THEN bindings[u] \ {c} ELSE bindings[u]]
  /\ disturbed' = disturbed \cup us
  /\ UNCHANGED <<members, roles, due, active, plan, request>>

ScimRename(c, n) ==
  /\ requests < MaxRequests /\ requests' = requests + 1
  /\ name[c] # None
  /\ name' = [name EXCEPT ![c] = n]
  /\ namesakes' = namesakes \cup {n}
  /\ UNCHANGED <<members, given, perms, asked, mixed, active, plan, request>>

ScimDeleteGroup(c) ==
  /\ requests < MaxRequests /\ requests' = requests + 1
  /\ name[c] # None
  /\ RemoveRow(c)
  /\ UNCHANGED <<members, active, plan, request>>

-------------------------------------------------------------------------------
(* events.signIn, when the groups claim names the tenant *)

\* The membership becomes ACTIVE ...
SignIn(q, u) ==
  /\ Arrives(q, [Idle EXCEPT !.op = "signin", !.user = u])
  /\ status' = [status EXCEPT ![u] = "ACTIVE"]
  /\ walkIns' = IF status[u] = "none" THEN walkIns \cup {u} ELSE walkIns
  /\ UNCHANGED <<roles, given, active, plan>>

\* ... and the default role is added, at every sign-in.
BindDefault(q) ==
  LET u == request[q].user IN
  /\ request[q].op = "signin"
  /\ bindings' = [bindings EXCEPT ![u] = @ \cup {Default}]
  /\ disturbed' = disturbed \cup {u}
  /\ Answers(q)
  /\ UNCHANGED <<members, roles, due, active, plan>>

-------------------------------------------------------------------------------
TeamRoutes(q) ==
  \/ \E u \in Users :
       \/ \E n \in AllNames \cup AppRoles, as \in SUBSET AppRoles : Invite(q, u, n, as)
       \/ Accept(q, u)
       \/ \E r \in Roles : ChangeRole(q, u, r)
       \/ \E a \in AppRoles : Assign(q, u, a) \/ Unassign(q, u, a)
  \/ CountSeats(q) \/ RejectSeat(q) \/ AddMember(q) \/ Activate(q)
  \/ DropBindings(q) \/ BindRole(q) \/ SetAppRole(q)
  \/ Fails(q)

RoleRoutes(q) ==
  \/ \E n \in Names, ps \in SUBSET Perms : CreateRole(q, n, ps)
  \/ \E c \in CustomRoles :
       \/ InsertRole(q, c) \/ DeleteRole(q, c)
       \/ \E ps \in SUBSET Perms : EditRole(q, c, ps)
  \/ DropPermissions(q) \/ WritePermissions(q) \/ RemoveRole(q)

ScimRoutes ==
  \/ \E u \in Users : ScimCreateUser(u)
  \/ \E c \in CustomRoles :
       \/ \E us \in Lists : ScimRemoveMembers(c, us)
       \/ \E n \in AllNames : ScimRename(c, n)
       \/ ScimDeleteGroup(c)
       \/ \E q \in Requests, us \in Lists :
            \/ ScimClearGroup(q, c, us) \/ ScimAddMembers(q, c, us)
            \/ \E n \in AllNames : ScimCreateGroup(q, c, n, us)
  \/ \E q \in Requests : ScimFillGroup(q)

SignIns == \E q \in Requests : BindDefault(q) \/ \E u \in Users : SignIn(q, u)

Next ==
  \/ \E q \in Requests : TeamRoutes(q) \/ RoleRoutes(q)
  \/ ScimRoutes \/ SignIns
  \/ \E l \in Limits : SetLimit(l)
  \/ \E a \in AppRoles : SetActive(a)

Spec == Init /\ [][Next]_vars

-------------------------------------------------------------------------------
(* Properties *)

\* Invitations that are handled at once may take a plan past its seats, but by
\* no more than one seat less than there are such invitations; members who came
\* in over SCIM or by a sign-in are not held against the limit (invite/route.ts).
SeatsBounded ==
  Cardinality(Members) <= peak - 1 + Cardinality(Requests) + Cardinality(walkIns)

\* A member has the base role of the last invitation or role change and no
\* other, unless the member was invited again, signed in with the tenant's
\* group, was changed over SCIM, or had the role changed by requests whose
\* transactions overlapped (members/[userId]/role/route.ts).
RoleHolds ==
  \A u \in Users \ disturbed : bindings[u] \cap Roles = {due[u]} \ {None}

\* A name finds one role at most, unless two requests created it at once or it
\* was given over SCIM (roles/route.ts).
NamesUnique ==
  \A n \in AllNames \ namesakes : \A r, s \in Named(n) : r = s

\* A custom role has the permissions of the last edit and no other, unless two
\* edits' transactions overlapped (roles/[id]/route.ts).
PermissionsAsAsked ==
  \A c \in CustomRoles \ mixed : perms[c] = asked[c]

\* Members have the roles they were given last, and custom roles are as the
\* console was asked to keep them (members/[userId]/role/route.ts, roles/route.ts).
RolesHold == RoleHolds /\ NamesUnique /\ PermissionsAsAsked
===============================================================================
