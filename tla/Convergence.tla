------------------------------ MODULE Convergence ------------------------------
(***************************************************************************)
(* One pass of convergeAppInstance over the users and the roles of a tenant: *)
(* the calls it makes to a connected app, one at a time, while the team and  *)
(* the app change under it and any call may end it.  OutboxSync has the pass *)
(* as one write and says when a next one runs; here it is what a pass leaves *)
(* at the app.  An app holds its roles as SCIM groups, Riogentix as          *)
(* assignments of a catalog of its own.  Passes for one instance follow one  *)
(* another.                                                                 *)
(***************************************************************************)
EXTENDS FiniteSets, Naturals

CONSTANTS
  People,
  PlatformRoles,             \* roles of any app, by their permissions
  RolesHere, RolesElsewhere, \* roles of this app, and of another
  Viewer, Developer, Admin,  \* Riogentix's catalog
  NoAccount, NoGroup,
  MaxEdits                   \* bound on the changes of the team

Catalog == {Viewer, Developer, Admin}
SyncRoles == PlatformRoles \cup RolesHere

ASSUME ConvergenceAssumption ==
  /\ SyncRoles \cap RolesElsewhere = {} /\ PlatformRoles \cap RolesHere = {}
  /\ MaxEdits \in Nat /\ NoAccount \notin [active : BOOLEAN, linked : BOOLEAN]

VARIABLES
  place,    \* of each person in the team
  held,     \* role bindings
  codes,    \* permissions of the platform's roles
  native,   \* the app is Riogentix
  account,  \* of each person at the app
  groups,   \* of each role at the app: the members
  assigned, \* Riogentix's assignments
  pass,
  edits

team == <<place, held, codes, native>>
app  == <<account, groups, assigned>>
convVars == <<team, app, pass, edits>>

Places == {"out", "active", "suspended", "deleted"}
Pairs == People \X (SyncRoles \cup RolesElsewhere)
Idle == [step |-> "idle", unread |-> {}, place |-> [u \in People |-> "out"], held |-> {}, todo |-> {},
         at |-> {}, known |-> {}, stale |-> {}, offered |-> {}, had |-> {}, raced |-> {}]

AppAccount == [active : BOOLEAN, linked : BOOLEAN]
ConvPass == [step : {"idle", "reads", "users", "create", "replace", "groups", "grants"},
             unread : SUBSET {"team", "bindings"}, place : [People -> Places], held : SUBSET Pairs,
             todo : SUBSET (People \cup SyncRoles \cup (People \X Catalog)),
             at : SUBSET People, known : SUBSET People, raced : SUBSET People,
             stale : SUBSET SyncRoles, offered : SUBSET Catalog, had : SUBSET (People \X Catalog)]

ConvTypeOK ==
  /\ place \in [People -> Places] /\ held \subseteq Pairs /\ native \in BOOLEAN
  /\ codes \in [PlatformRoles -> SUBSET {"notes:create", "notes:update", "notes:delete", "platform:admin"}]
  /\ account \in [People -> AppAccount \cup {NoAccount}]
  /\ groups \in [SyncRoles -> (SUBSET People) \cup {NoGroup}]
  /\ assigned \subseteq People \X Catalog
  /\ pass \in ConvPass /\ Cardinality(pass.at) <= 1
  /\ edits \in 0..MaxEdits

ConvInit ==
  /\ place = [u \in People |-> "active"] /\ held = {} /\ native \in BOOLEAN
  /\ codes \in [PlatformRoles -> {{}, {"notes:create"}, {"notes:delete"}}]
  /\ account = [u \in People |-> NoAccount] /\ groups = [r \in SyncRoles |-> NoGroup] /\ assigned = {}
  /\ pass = Idle /\ edits = 0

-------------------------------------------------------------------------------
(* What a pass is to bring about, by what it read *)

InTeam(p) == {u \in People : p.place[u] \in {"active", "suspended"}}
Desired(p, u) == [active |-> p.place[u] = "active", linked |-> TRUE]
Bound(p) == {b \in p.held : b[2] \in SyncRoles}

\* Bindings of people without an account are passed over.
MembersOf(p, r) == {u \in p.known : <<u, r>> \in Bound(p)}
RolesBound(p) == {r \in SyncRoles : MembersOf(p, r) # {}}

\* mapPlatformRoleToNativeTier
Tier(r) ==
  IF {"platform:admin", "notes:delete"} \cap codes[r] # {} THEN Admin
  ELSE IF {"notes:update", "notes:create"} \cap codes[r] # {} THEN Developer
  ELSE Viewer

\* A role of the app itself goes before those of the platform, also one that
\* the catalog does not have.  What the catalog lacks is passed over.
Explicit(p) == {u \in People : \E r \in RolesHere : <<u, r>> \in p.held}
Due(p) ==
  {g \in p.known \X p.offered :
     IF g[1] \in Explicit(p) THEN g[2] \in RolesHere /\ g \in p.held
     ELSE \E r \in PlatformRoles : <<g[1], r>> \in p.held /\ g[2] = Tier(r)}

-------------------------------------------------------------------------------
(* A pass *)

Done(p) == p.step \in {"groups", "grants"} /\ p.todo = {} /\ p.stale = {}

\* The team and the bindings are read side by side, not in one transaction.
StartPass ==
  /\ pass.step = "idle" \/ Done(pass)
  /\ pass' = [Idle EXCEPT !.step = "reads", !.unread = {"team", "bindings"}]
  /\ UNCHANGED <<team, app, edits>>

Reads(what) ==
  /\ pass.step = "reads" /\ what \in pass.unread
  /\ LET p == [pass EXCEPT !.unread = @ \ {what},
                           !.place = IF what = "team" THEN place ELSE @,
                           !.held = IF what = "bindings" THEN held ELSE @] IN
     pass' = IF p.unread = {} THEN [p EXCEPT !.step = "users", !.todo = InTeam(p)] ELSE p
  /\ UNCHANGED <<team, app, edits>>

\* Mutant of Differs: an account that is linked is up to date.
DiffersInLink(u) == ~account[u].linked
Differs(u) == account[u] # Desired(pass, u)

FindUser(u) ==
  /\ pass.step = "users" /\ u \in pass.todo
  /\ pass' = LET p == [pass EXCEPT !.todo = @ \ {u}] IN
             IF account[u] = NoAccount THEN [p EXCEPT !.step = "create", !.at = {u}]
             ELSE IF Differs(u) THEN [p EXCEPT !.step = "replace", !.at = {u}]
             ELSE [p EXCEPT !.known = @ \cup {u}]
  /\ UNCHANGED <<team, app, edits>>

\* Of an account that has come to be meanwhile, the app says so, and it is
\* taken as it is.
WriteUser(u) ==
  /\ pass.step \in {"create", "replace"} /\ u \in pass.at
  /\ LET there == pass.step = "create" /\ account[u] # NoAccount IN
     /\ account' = [account EXCEPT ![u] = IF there THEN @ ELSE Desired(pass, u)]
     /\ pass' = [pass EXCEPT !.step = "users", !.at = {}, !.known = @ \cup {u},
                             !.raced = IF there THEN @ \cup {u} ELSE @]
  /\ UNCHANGED <<team, groups, assigned, edits>>

\* Then the groups, as listed once, or the assignments.
ListGroups ==
  /\ ~native /\ pass.step = "users" /\ pass.todo = {}
  /\ pass' = [pass EXCEPT !.step = "groups", !.todo = RolesBound(pass),
                          !.stale = {r \in SyncRoles : groups[r] # NoGroup} \ RolesBound(pass)]
  /\ UNCHANGED <<team, app, edits>>

\* The catalog may lack a role; it is empty for a tenant whose instance is not
\* there or not configured.
ListCatalog(roles) ==
  /\ native /\ pass.step = "users" /\ pass.todo = {}
  /\ pass' = [pass EXCEPT !.step = "grants", !.offered = roles, !.had = assigned,
                          !.todo = Due([pass EXCEPT !.offered = roles])]
  /\ UNCHANGED <<team, app, edits>>

PutGroup(r) ==
  /\ pass.step = "groups" /\ r \in pass.todo
  /\ groups' = [groups EXCEPT ![r] = MembersOf(pass, r)]
  /\ pass' = [pass EXCEPT !.todo = @ \ {r}]
  /\ UNCHANGED <<team, account, assigned, edits>>

DeleteGroup(r) ==
  /\ pass.step = "groups" /\ pass.todo = {} /\ r \in pass.stale
  /\ groups' = [groups EXCEPT ![r] = NoGroup]
  /\ pass' = [pass EXCEPT !.stale = @ \ {r}]
  /\ UNCHANGED <<team, account, assigned, edits>>

Assign(u, n) ==
  /\ pass.step = "grants" /\ <<u, n>> \in pass.todo
  /\ assigned' = assigned \cup {<<u, n>>}
  /\ pass' = [pass EXCEPT !.todo = @ \ {<<u, n>>}]
  /\ UNCHANGED <<team, account, groups, edits>>

\* A call fails, or the process ends: the rest is left to another pass.
PassFails ==
  /\ pass.step # "idle" /\ ~Done(pass)
  /\ pass' = Idle
  /\ UNCHANGED <<team, app, edits>>

-------------------------------------------------------------------------------
(* What happens meanwhile *)

\* Somebody signs in to the app itself first.
AppCreates(u) ==
  /\ account[u] = NoAccount /\ account' = [account EXCEPT ![u] = [active |-> TRUE, linked |-> FALSE]]
  /\ UNCHANGED <<team, groups, assigned, pass, edits>>

Edits == edits < MaxEdits /\ edits' = edits + 1 /\ UNCHANGED <<codes, native, app, pass>>

\* A person who leaves the team loses the bindings; one whose account is
\* deleted keeps them.
Moves(u, to) ==
  /\ Edits /\ place[u] \notin {to, "deleted"} /\ place' = [place EXCEPT ![u] = to]
  /\ held' = IF to = "out" THEN {b \in held : b[1] # u} ELSE held

Binds(u, r) ==
  /\ Edits /\ place[u] \in {"active", "suspended"} /\ UNCHANGED place
  /\ held' = IF <<u, r>> \in held THEN held \ {<<u, r>>} ELSE held \cup {<<u, r>>}

ConvNext ==
  \/ StartPass \/ Reads("team") \/ Reads("bindings") \/ ListGroups \/ PassFails
  \/ \E roles \in SUBSET Catalog : ListCatalog(roles)
  \/ \E u \in People : FindUser(u) \/ WriteUser(u) \/ AppCreates(u)
  \/ \E r \in SyncRoles : PutGroup(r) \/ DeleteGroup(r)
  \/ \E u \in People, n \in Catalog : Assign(u, n)
  \/ \E u \in People, to \in Places : Moves(u, to)
  \/ \E u \in People, r \in SyncRoles \cup RolesElsewhere : Binds(u, r)

ConvSpec == ConvInit /\ [][ConvNext]_convVars

-------------------------------------------------------------------------------
(* Properties *)

\* A pass that ends leaves the app as the team was when it read it, whatever
\* passes before it left half done and whatever has changed since: each member
\* has an account that is active or not as it should be, each role in use its
\* group with its members and no other role one, and on Riogentix what is due
\* of its catalog is added to what there was.  The exception is an account the app created
\* between the look for it and the call that creates it, which the pass takes
\* as it is (convergeAppInstance, convergeRiogentixRoleAssignments).
PassIsWhole ==
  Done(pass) =>
    /\ \A u \in InTeam(pass) \ pass.raced : account[u] = Desired(pass, u)
    /\ IF native THEN assigned = pass.had \cup Due(pass)
       ELSE \A r \in SyncRoles :
              LET ms == {u \in InTeam(pass) : <<u, r>> \in pass.held} IN
              groups[r] = IF ms = {} THEN NoGroup ELSE ms
================================================================================
