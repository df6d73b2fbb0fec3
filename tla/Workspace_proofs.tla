-------------------------- MODULE Workspace_proofs --------------------------
(***************************************************************************)
(* Proofs about the workspace of a tenant.  TeamMembership: by how much    *)
(* invitations handled at once exceed the seats, and why roles and         *)
(* permissions are what the last request made them.  Webhooks: a page shows *)
(* what the row is, and the row tells how its deliveries ended.            *)
(***************************************************************************)
EXTENDS TeamMembership, Webhooks, FiniteSetTheorems, TLAPS

(***************************************************************************)
(* TeamMembership                                                          *)
(***************************************************************************)

(* What a request that is under way knows about the row it is about.          *)
RequestOK ==
  /\ limit <= peak
  /\ \A q \in Requests :
       /\ request[q].op \in {"accept", "change", "replace"} => status[request[q].user] # "none"
       /\ request[q].op \in {"change", "replace"} => request[q].role \in Roles
       /\ request[q].op \in {"assign", "unassign"} => request[q].role \in AppRoles
       /\ request[q].op \in {"edit", "rewrite", "delete", "fill"} => request[q].role \in CustomRoles
       /\ request[q].op = "create" => request[q].want \in Names
       /\ request[q].op \in {"create", "edit", "rewrite"} => request[q].picks \in SUBSET Perms
       /\ request[q].op = "fill" => request[q].picks \in SUBSET Users
       /\ request[q].limit <= peak

(* The members who were invited, and the invitations that have found a seat   *)
(* for someone who is not a member yet.                                       *)
Seated == Members \ walkIns
Counted == {q \in Requests : request[q].op = "add" /\ status[request[q].user] = "none"}
SeatInv == Cardinality(Seated) + Cardinality(Counted) <= peak - 1 + Cardinality(Requests)
SeatsKept == Seated' \subseteq Seated /\ Counted' \subseteq Counted /\ peak <= peak'

(* An undisturbed member has the role that is due, and a transaction that is  *)
(* about to replace it has found it.                                          *)
RoleInv ==
  /\ RoleHolds
  /\ \A u \in Users \ disturbed : status[u] = "none" => due[u] = None
  /\ \A q \in Requests : request[q].op = "replace" /\ request[q].user \notin disturbed
       => bindings[request[q].user] \cap Roles \subseteq request[q].old

(* A name that is about to be taken is still free.                            *)
NameInv ==
  /\ NamesUnique
  /\ \A q \in Requests : request[q].op = "create" /\ request[q].want \notin namesakes
       => Named(request[q].want) = {}

(* An edit that is about to write has found all there is.                     *)
PermissionInv ==
  /\ PermissionsAsAsked
  /\ \A c \in CustomRoles : name[c] = None => perms[c] = asked[c]
  /\ \A q \in Requests : request[q].op = "rewrite" /\ request[q].role \notin mixed
       => perms[request[q].role] \subseteq request[q].old

-----------------------------------------------------------------------------
\* The types at the start.
LEMMA InitType == Init => TypeOK
BY TeamAssumption DEF Init, TypeOK, MembersOK, GivenOK, RolesOK, RequestsOK, RequestRecord, Ops,
   Idle, Roles, AllNames

\* A step of one request leaves a record of requests.
LEMMA RequestType ==
  ASSUME NEW q \in Requests, NEW r \in RequestRecord, RequestsOK,
         Arrives(q, r) \/ GoesOn(q, r)
  PROVE  request' \in [Requests -> RequestRecord] /\ requests' \in 0..MaxRequests
<1>1. request' \in [Requests -> RequestRecord]
  BY DEF RequestsOK, Arrives, GoesOn
<1>2. requests' = requests \/ (requests < MaxRequests /\ requests' = requests + 1)
  BY DEF Arrives, GoesOn
<1> QED
  BY <1>1, <1>2, TeamAssumption DEF RequestsOK

\* A request never carries a limit above the largest there was.
LEMMA LimitsOK ==
  ASSUME RequestsOK, RequestOK, NEW q \in Requests
  PROVE  /\ request[q].limit \in Nat /\ request[q].limit <= peak
         /\ peak \in Nat /\ peak >= 1 /\ limit <= peak
<1>1. request[q] \in RequestRecord
  BY DEF RequestsOK
<1>2. request[q].limit \in Limits \cup {0}
  BY <1>1 DEF RequestRecord
<1>3. \A l \in Limits \cup {0} : l \in Nat
  BY TeamAssumption
<1>4. request[q].limit \in Nat
  BY <1>2, <1>3
<1>5. peak \in Nat /\ peak >= 1
  BY TeamAssumption DEF RequestsOK
<1> QED
  BY <1>4, <1>5 DEF RequestOK

\* A request that is not under way is a record of requests too.
LEMMA IdleType == Idle \in RequestRecord
BY TeamAssumption DEF Idle, RequestRecord, Ops, AllNames

\* Every step of a request keeps its record.
LEMMA RequestTypeStep ==
  ASSUME RequestsOK, GivenOK, RolesOK, RequestOK, Next \/ UNCHANGED vars
  PROVE  RequestsOK'
<1> USE TeamAssumption DEF members, given, roles, plan
<1>1. ASSUME NEW q \in Requests, NEW u \in Users, NEW n \in AllNames \cup AppRoles,
             NEW as \in SUBSET AppRoles, Invite(q, u, n, as)
      PROVE  RequestsOK'
  <2>1. [Idle EXCEPT !.op = "invite", !.user = u, !.want = n, !.picks = as, !.limit = limit] \in RequestRecord
    BY DEF RequestRecord, Ops, Idle, RequestsOK
  <2> QED
    BY <1>1, <2>1, RequestType DEF Invite, RequestsOK
<1>2. ASSUME NEW q \in Requests, NEW u \in Users, Accept(q, u) PROVE RequestsOK'
  <2>1. [Idle EXCEPT !.op = "accept", !.user = u] \in RequestRecord
    BY DEF RequestRecord, Ops, Idle
  <2> QED
    BY <1>2, <2>1, RequestType DEF Accept, RequestsOK
<1>3. ASSUME NEW q \in Requests, NEW u \in Users, NEW r \in Roles, ChangeRole(q, u, r)
      PROVE  RequestsOK'
  <2>1. [Idle EXCEPT !.op = "change", !.user = u, !.role = r] \in RequestRecord
    BY DEF RequestRecord, Ops, Idle
  <2> QED
    BY <1>3, <2>1, RequestType DEF ChangeRole, RequestsOK
<1>4. ASSUME NEW q \in Requests, NEW u \in Users, NEW a \in AppRoles, Assign(q, u, a)
      PROVE  RequestsOK'
  <2>1. [Idle EXCEPT !.op = "assign", !.user = u, !.role = a] \in RequestRecord
    BY DEF RequestRecord, Ops, Idle
  <2> QED
    BY <1>4, <2>1, RequestType DEF Assign, RequestsOK
<1>5. ASSUME NEW q \in Requests, NEW u \in Users, NEW a \in AppRoles, Unassign(q, u, a)
      PROVE  RequestsOK'
  <2>1. [Idle EXCEPT !.op = "unassign", !.user = u, !.role = a] \in RequestRecord
    BY DEF RequestRecord, Ops, Idle
  <2> QED
    BY <1>5, <2>1, RequestType DEF Unassign, RequestsOK
<1>6. ASSUME NEW q \in Requests, CountSeats(q) PROVE RequestsOK'
  <2>1. [request[q] EXCEPT !.op = "add"] \in RequestRecord
    BY DEF RequestRecord, Ops, RequestsOK, AllNames, Roles
  <2> QED
    BY <1>6, <2>1, RequestType DEF CountSeats, RequestsOK
<1>7. ASSUME NEW q \in Requests, RejectSeat(q) PROVE RequestsOK'
  BY <1>7, IdleType, RequestType DEF RejectSeat, Answers, RequestsOK
<1>8. ASSUME NEW q \in Requests, AddMember(q) PROVE RequestsOK'
  BY <1>8, IdleType, RequestType DEF AddMember, Answers, RequestsOK
<1>9. ASSUME NEW q \in Requests, Activate(q) PROVE RequestsOK'
  BY <1>9, IdleType, RequestType DEF Activate, Answers, RequestsOK
<1>10. ASSUME NEW q \in Requests, DropBindings(q) PROVE RequestsOK'
  <2>1. request[q] \in RequestRecord /\ bindings[request[q].user] \in SUBSET (Roles \cup AppRoles)
    BY <1>10 DEF RequestsOK, RequestRecord, GivenOK
  <2>2. [request[q] EXCEPT !.op = "replace", !.old = bindings[request[q].user]] \in RequestRecord
    BY <2>1 DEF RequestRecord, Ops, Roles
  <2> QED
    BY <1>10, <2>2, RequestType DEF DropBindings, RequestsOK
<1>11. ASSUME NEW q \in Requests, BindRole(q) PROVE RequestsOK'
  BY <1>11, IdleType, RequestType DEF BindRole, Answers, RequestsOK
<1>12. ASSUME NEW q \in Requests, SetAppRole(q) PROVE RequestsOK'
  BY <1>12, IdleType, RequestType DEF SetAppRole, Answers, RequestsOK
<1>13. ASSUME NEW q \in Requests, Fails(q) PROVE RequestsOK'
  BY <1>13, IdleType, RequestType DEF Fails, Answers, RequestsOK
<1>14. ASSUME NEW q \in Requests, NEW n \in Names, NEW ps \in SUBSET Perms, CreateRole(q, n, ps)
      PROVE  RequestsOK'
  <2>1. [Idle EXCEPT !.op = "create", !.want = n, !.picks = ps] \in RequestRecord
    BY DEF RequestRecord, Ops, Idle, AllNames
  <2> QED
    BY <1>14, <2>1, RequestType DEF CreateRole, RequestsOK
<1>15. ASSUME NEW q \in Requests, NEW c \in CustomRoles, InsertRole(q, c) PROVE RequestsOK'
  BY <1>15, IdleType, RequestType DEF InsertRole, Answers, RequestsOK
<1>16. ASSUME NEW q \in Requests, NEW c \in CustomRoles, DeleteRole(q, c) PROVE RequestsOK'
  <2>1. [Idle EXCEPT !.op = "delete", !.role = c] \in RequestRecord
    BY DEF RequestRecord, Ops, Idle, Roles
  <2> QED
    BY <1>16, <2>1, RequestType DEF DeleteRole, RequestsOK
<1>17. ASSUME NEW q \in Requests, NEW c \in CustomRoles, NEW ps \in SUBSET Perms, EditRole(q, c, ps)
      PROVE  RequestsOK'
  <2>1. [Idle EXCEPT !.op = "edit", !.role = c, !.picks = ps] \in RequestRecord
    BY DEF RequestRecord, Ops, Idle, Roles
  <2> QED
    BY <1>17, <2>1, RequestType DEF EditRole, RequestsOK
<1>18. ASSUME NEW q \in Requests, DropPermissions(q) PROVE RequestsOK'
  <2>1. request[q] \in RequestRecord /\ perms[request[q].role] \in SUBSET Perms
    BY <1>18 DEF DropPermissions, RequestsOK, RequestOK, RolesOK
  <2>2. [request[q] EXCEPT !.op = "rewrite", !.old = perms[request[q].role]] \in RequestRecord
    BY <2>1 DEF RequestRecord, Ops, Roles
  <2> QED
    BY <1>18, <2>2, RequestType DEF DropPermissions, RequestsOK
<1>19. ASSUME NEW q \in Requests, WritePermissions(q) PROVE RequestsOK'
  BY <1>19, IdleType, RequestType DEF WritePermissions, Answers, RequestsOK
<1>20. ASSUME NEW q \in Requests, RemoveRole(q) PROVE RequestsOK'
  BY <1>20, IdleType, RequestType DEF RemoveRole, Answers, RequestsOK
<1>21. ASSUME NEW u \in Users, ScimCreateUser(u) PROVE RequestsOK'
  BY <1>21 DEF ScimCreateUser, RequestsOK
<1>22. ASSUME NEW c \in CustomRoles, NEW us \in SUBSET Users, ScimRemoveMembers(c, us)
      PROVE  RequestsOK'
  BY <1>22 DEF ScimRemoveMembers, RequestsOK
<1>23. ASSUME NEW c \in CustomRoles, NEW n \in AllNames, ScimRename(c, n) PROVE RequestsOK'
  BY <1>23 DEF ScimRename, RequestsOK
<1>24. ASSUME NEW c \in CustomRoles, ScimDeleteGroup(c) PROVE RequestsOK'
  BY <1>24 DEF ScimDeleteGroup, RequestsOK
<1>25. ASSUME NEW q \in Requests, NEW c \in CustomRoles, NEW us \in SUBSET Users, ScimClearGroup(q, c, us)
      PROVE  RequestsOK'
  <2>1. [Idle EXCEPT !.op = "fill", !.role = c, !.picks = us] \in RequestRecord
    BY DEF RequestRecord, Ops, Idle, Roles
  <2> QED
    BY <1>25, <2>1, RequestType DEF ScimClearGroup, RequestsOK
<1>26. ASSUME NEW q \in Requests, NEW c \in CustomRoles, NEW us \in SUBSET Users, ScimAddMembers(q, c, us)
      PROVE  RequestsOK'
  <2>1. [Idle EXCEPT !.op = "fill", !.role = c, !.picks = us] \in RequestRecord
    BY DEF RequestRecord, Ops, Idle, Roles
  <2> QED
    BY <1>26, <2>1, RequestType DEF ScimAddMembers, RequestsOK
<1>27. ASSUME NEW q \in Requests, NEW c \in CustomRoles, NEW n \in AllNames, NEW us \in SUBSET Users, ScimCreateGroup(q, c, n, us)
      PROVE  RequestsOK'
  <2>1. [Idle EXCEPT !.op = "fill", !.role = c, !.picks = us] \in RequestRecord
    BY DEF RequestRecord, Ops, Idle, Roles
  <2> QED
    BY <1>27, <2>1, RequestType DEF ScimCreateGroup, RequestsOK
<1>28. ASSUME NEW q \in Requests, ScimFillGroup(q) PROVE RequestsOK'
  BY <1>28, IdleType, RequestType DEF ScimFillGroup, Answers, RequestsOK
<1>29. ASSUME NEW q \in Requests, NEW u \in Users, SignIn(q, u) PROVE RequestsOK'
  <2>1. [Idle EXCEPT !.op = "signin", !.user = u] \in RequestRecord
    BY DEF RequestRecord, Ops, Idle
  <2> QED
    BY <1>29, <2>1, RequestType DEF SignIn, RequestsOK
<1>30. ASSUME NEW q \in Requests, BindDefault(q) PROVE RequestsOK'
  BY <1>30, IdleType, RequestType DEF BindDefault, Answers, RequestsOK
<1>31. ASSUME NEW l \in Limits, SetLimit(l) PROVE RequestsOK'
  BY <1>31 DEF SetLimit, RequestsOK
<1>32. ASSUME NEW a \in AppRoles, SetActive(a) PROVE RequestsOK'
  BY <1>32 DEF SetActive, RequestsOK
<1>33. ASSUME UNCHANGED vars PROVE RequestsOK'
  BY <1>33 DEF vars, RequestsOK
<1>34. ASSUME NEW q \in Requests, TeamRoutes(q) PROVE RequestsOK'
  BY <1>1, <1>2, <1>3, <1>4, <1>5, <1>6, <1>7, <1>8, <1>9, <1>10, <1>11, <1>12, <1>13,
     <1>34 DEF TeamRoutes
<1>35. ASSUME NEW q \in Requests, RoleRoutes(q) PROVE RequestsOK'
  BY <1>14, <1>15, <1>16, <1>17, <1>18, <1>19, <1>20, <1>35 DEF RoleRoutes
<1>36. ASSUME ScimRoutes PROVE RequestsOK'
  BY <1>21, <1>22, <1>23, <1>24, <1>25, <1>26, <1>27, <1>28, <1>36 DEF ScimRoutes, Lists
<1>37. ASSUME SignIns PROVE RequestsOK'
  BY <1>29, <1>30, <1>37 DEF SignIns
<1> QED
  BY <1>31, <1>32, <1>33, <1>34, <1>35, <1>36, <1>37 DEF Next

\* Every step of the team keeps the types.
LEMMA TypeStep ==
  ASSUME TypeOK, RequestOK, Next \/ UNCHANGED vars
  PROVE  TypeOK'
<1> SUFFICES MembersOK' /\ GivenOK' /\ RolesOK'
  BY RequestTypeStep DEF TypeOK
<1> USE TeamAssumption DEF TypeOK, MembersOK, GivenOK, RolesOK, RequestOK, members, given,
      roles, plan
<1>1. ASSUME NEW q \in Requests, NEW u \in Users, NEW n \in AllNames \cup AppRoles,
             NEW as \in SUBSET AppRoles, Invite(q, u, n, as)
      PROVE  MembersOK' /\ GivenOK' /\ RolesOK'
  BY <1>1 DEF Invite, Arrives, Idle
<1>2. ASSUME NEW q \in Requests, NEW u \in Users, Accept(q, u)
      PROVE  MembersOK' /\ GivenOK' /\ RolesOK'
  BY <1>2 DEF Accept, Arrives, Idle
<1>3. ASSUME NEW q \in Requests, NEW u \in Users, NEW r \in Roles, ChangeRole(q, u, r)
      PROVE  MembersOK' /\ GivenOK' /\ RolesOK'
  BY <1>3 DEF ChangeRole, Arrives, Idle
<1>4. ASSUME NEW q \in Requests, NEW u \in Users, NEW a \in AppRoles, Assign(q, u, a)
      PROVE  MembersOK' /\ GivenOK' /\ RolesOK'
  BY <1>4 DEF Assign, Arrives, Idle
<1>5. ASSUME NEW q \in Requests, NEW u \in Users, NEW a \in AppRoles, Unassign(q, u, a)
      PROVE  MembersOK' /\ GivenOK' /\ RolesOK'
  BY <1>5 DEF Unassign, Arrives, Idle
<1>6. ASSUME NEW q \in Requests, CountSeats(q) PROVE MembersOK' /\ GivenOK' /\ RolesOK'
  BY <1>6 DEF CountSeats, GoesOn
<1>7. ASSUME NEW q \in Requests, RejectSeat(q) PROVE MembersOK' /\ GivenOK' /\ RolesOK'
  BY <1>7 DEF RejectSeat, Answers, GoesOn, Idle
<1>8. ASSUME NEW q \in Requests, AddMember(q) PROVE MembersOK' /\ GivenOK' /\ RolesOK'
  <2> DEFINE u == request[q].user
             found == Named(request[q].want) \cup ({request[q].want} \cap AppRoles)
  <2>1. u \in Users /\ found \subseteq Roles \cup AppRoles
    BY DEF RequestsOK, RequestRecord, Named, Roles
  <2>2. MembersOK'
    BY <1>8, <2>1 DEF AddMember
  <2>3. PICK r \in found \cup {None} :
          /\ bindings' = [bindings EXCEPT ![u] =
               @ \cup ({r} \ {None}) \cup (request[q].picks \cap active)]
          /\ due' = IF status[u] = "none" THEN [due EXCEPT ![u] = IF r \in Roles THEN r ELSE None]
                    ELSE due
    BY <1>8 DEF AddMember
  <2>4. active \subseteq AppRoles
    BY DEF RequestsOK
  <2>5. bindings' \in [Users -> SUBSET (Roles \cup AppRoles)]
    BY <2>1, <2>3, <2>4
  <2>6. due' \in [Users -> Roles \cup {None}] /\ disturbed' \in SUBSET Users
    BY <1>8, <2>1, <2>3 DEF AddMember
  <2>7. RolesOK'
    BY <1>8 DEF AddMember
  <2> QED
    BY <2>2, <2>5, <2>6, <2>7
<1>9. ASSUME NEW q \in Requests, Activate(q) PROVE MembersOK' /\ GivenOK' /\ RolesOK'
  BY <1>9 DEF Activate, Answers, GoesOn, Idle
<1>10. ASSUME NEW q \in Requests, DropBindings(q) PROVE MembersOK' /\ GivenOK' /\ RolesOK'
  BY <1>10 DEF DropBindings, GoesOn
<1>11. ASSUME NEW q \in Requests, BindRole(q) PROVE MembersOK' /\ GivenOK' /\ RolesOK'
  <2> DEFINE u == request[q].user
  <2>1. u \in Users /\ request[q].role \in Roles
    BY <1>11 DEF BindRole, RequestsOK, RequestRecord
  <2>2. MembersOK' /\ RolesOK'
    BY <1>11 DEF BindRole
  <2>3. bindings' \in [Users -> SUBSET (Roles \cup AppRoles)]
    BY <1>11, <2>1 DEF BindRole
  <2>4. due' \in [Users -> Roles \cup {None}] /\ disturbed' \in SUBSET Users
    BY <1>11, <2>1 DEF BindRole
  <2> QED
    BY <2>2, <2>3, <2>4
<1>12. ASSUME NEW q \in Requests, SetAppRole(q) PROVE MembersOK' /\ GivenOK' /\ RolesOK'
  <2>1. request[q].user \in Users /\ request[q].role \in AppRoles
    BY <1>12 DEF SetAppRole, RequestsOK, RequestRecord
  <2>2. bindings' \in [Users -> SUBSET (Roles \cup AppRoles)]
    BY <1>12, <2>1 DEF SetAppRole
  <2>3. MembersOK' /\ RolesOK' /\ due' = due /\ disturbed' = disturbed
    BY <1>12 DEF SetAppRole
  <2> QED
    BY <2>2, <2>3
<1>13. ASSUME NEW q \in Requests, Fails(q) PROVE MembersOK' /\ GivenOK' /\ RolesOK'
  BY <1>13 DEF Fails, Answers, GoesOn, Idle
<1>14. ASSUME NEW q \in Requests, NEW n \in Names, NEW ps \in SUBSET Perms, CreateRole(q, n, ps)
      PROVE  MembersOK' /\ GivenOK' /\ RolesOK'
  BY <1>14 DEF CreateRole, Arrives, Idle
<1>15. ASSUME NEW q \in Requests, NEW c \in CustomRoles, InsertRole(q, c)
      PROVE  MembersOK' /\ GivenOK' /\ RolesOK'
  <2>1. request[q].want \in Names /\ Names \subseteq AllNames /\ request[q].picks \in SUBSET Perms
    BY <1>15 DEF InsertRole, AllNames
  <2>2. MembersOK' /\ GivenOK'
    BY <1>15 DEF InsertRole
  <2>3. name' \in [CustomRoles -> AllNames \cup {None}] /\ namesakes' \in SUBSET AllNames
    BY <1>15, <2>1 DEF InsertRole
  <2>4. perms' \in [CustomRoles -> SUBSET Perms] /\ asked' \in [CustomRoles -> SUBSET Perms]
        /\ mixed' \in SUBSET CustomRoles
    BY <1>15, <2>1 DEF InsertRole
  <2> QED
    BY <2>2, <2>3, <2>4
<1>16. ASSUME NEW q \in Requests, NEW c \in CustomRoles, DeleteRole(q, c)
      PROVE  MembersOK' /\ GivenOK' /\ RolesOK'
  BY <1>16 DEF DeleteRole, Arrives, Idle
<1>17. ASSUME NEW q \in Requests, NEW c \in CustomRoles, NEW ps \in SUBSET Perms, EditRole(q, c, ps)
      PROVE  MembersOK' /\ GivenOK' /\ RolesOK'
  BY <1>17 DEF EditRole, Arrives, Idle
<1>18. ASSUME NEW q \in Requests, DropPermissions(q) PROVE MembersOK' /\ GivenOK' /\ RolesOK'
  BY <1>18 DEF DropPermissions, GoesOn
<1>19. ASSUME NEW q \in Requests, WritePermissions(q) PROVE MembersOK' /\ GivenOK' /\ RolesOK'
  BY <1>19 DEF WritePermissions, Answers, GoesOn, Idle
<1>20. ASSUME NEW q \in Requests, RemoveRole(q) PROVE MembersOK' /\ GivenOK' /\ RolesOK'
  BY <1>20 DEF RemoveRole, RemoveRow
<1>21. ASSUME NEW u \in Users, ScimCreateUser(u) PROVE MembersOK' /\ GivenOK' /\ RolesOK'
  BY <1>21 DEF ScimCreateUser
<1>22. ASSUME NEW c \in CustomRoles, NEW us \in SUBSET Users, ScimRemoveMembers(c, us)
      PROVE  MembersOK' /\ GivenOK' /\ RolesOK'
  BY <1>22 DEF ScimRemoveMembers
<1>23. ASSUME NEW c \in CustomRoles, NEW n \in AllNames, ScimRename(c, n)
      PROVE  MembersOK' /\ GivenOK' /\ RolesOK'
  BY <1>23 DEF ScimRename
<1>24. ASSUME NEW c \in CustomRoles, ScimDeleteGroup(c) PROVE MembersOK' /\ GivenOK' /\ RolesOK'
  BY <1>24 DEF ScimDeleteGroup, RemoveRow
<1>25. ASSUME NEW q \in Requests, NEW c \in CustomRoles, NEW us \in SUBSET Users, ScimClearGroup(q, c, us)
      PROVE  MembersOK' /\ GivenOK' /\ RolesOK'
  BY <1>25 DEF ScimClearGroup, Arrives, Idle
<1>26. ASSUME NEW q \in Requests, NEW c \in CustomRoles, NEW us \in SUBSET Users, ScimAddMembers(q, c, us)
      PROVE  MembersOK' /\ GivenOK' /\ RolesOK'
  BY <1>26 DEF ScimAddMembers, Arrives, Idle
<1>27. ASSUME NEW q \in Requests, NEW c \in CustomRoles, NEW n \in AllNames, NEW us \in SUBSET Users, ScimCreateGroup(q, c, n, us)
      PROVE  MembersOK' /\ GivenOK' /\ RolesOK'
  BY <1>27 DEF ScimCreateGroup, Fresh, Arrives, Idle
<1>28. ASSUME NEW q \in Requests, ScimFillGroup(q) PROVE MembersOK' /\ GivenOK' /\ RolesOK'
  <2>1. request[q].role \in CustomRoles /\ request[q].picks \in SUBSET Users
    BY <1>28 DEF ScimFillGroup
  <2>2. MembersOK' /\ RolesOK'
    BY <1>28 DEF ScimFillGroup
  <2>3. \A v \in Users : bindings[v] \cup {request[q].role} \in SUBSET (Roles \cup AppRoles)
    BY <2>1 DEF Roles
  <2>4. GivenOK'
    BY <1>28, <2>1, <2>3 DEF ScimFillGroup
  <2> QED
    BY <2>2, <2>4
<1>29. ASSUME NEW q \in Requests, NEW u \in Users, SignIn(q, u)
      PROVE  MembersOK' /\ GivenOK' /\ RolesOK'
  BY <1>29 DEF SignIn, Arrives, Idle
<1>30. ASSUME NEW q \in Requests, BindDefault(q) PROVE MembersOK' /\ GivenOK' /\ RolesOK'
  <2>1. request[q].user \in Users /\ Default \in Roles
    BY DEF RequestsOK, RequestRecord, Roles
  <2>2. MembersOK' /\ RolesOK'
    BY <1>30 DEF BindDefault
  <2>3. GivenOK'
    BY <1>30, <2>1 DEF BindDefault
  <2> QED
    BY <2>2, <2>3
<1>31. ASSUME NEW l \in Limits, SetLimit(l) PROVE MembersOK' /\ GivenOK' /\ RolesOK'
  BY <1>31 DEF SetLimit
<1>32. ASSUME NEW a \in AppRoles, SetActive(a) PROVE MembersOK' /\ GivenOK' /\ RolesOK'
  BY <1>32 DEF SetActive
<1>33. ASSUME UNCHANGED vars PROVE MembersOK' /\ GivenOK' /\ RolesOK'
  BY <1>33 DEF vars
<1>34. ASSUME NEW q \in Requests, TeamRoutes(q) PROVE MembersOK' /\ GivenOK' /\ RolesOK'
  BY <1>1, <1>2, <1>3, <1>4, <1>5, <1>6, <1>7, <1>8, <1>9, <1>10, <1>11, <1>12, <1>13,
     <1>34 DEF TeamRoutes
<1>35. ASSUME NEW q \in Requests, RoleRoutes(q) PROVE MembersOK' /\ GivenOK' /\ RolesOK'
  BY <1>14, <1>15, <1>16, <1>17, <1>18, <1>19, <1>20, <1>35 DEF RoleRoutes
<1>36. ASSUME ScimRoutes PROVE MembersOK' /\ GivenOK' /\ RolesOK'
  BY <1>21, <1>22, <1>23, <1>24, <1>25, <1>26, <1>27, <1>28, <1>36 DEF ScimRoutes, Lists
<1>37. ASSUME SignIns PROVE MembersOK' /\ GivenOK' /\ RolesOK'
  BY <1>29, <1>30, <1>37 DEF SignIns
<1> QED
  BY <1>31, <1>32, <1>33, <1>34, <1>35, <1>36, <1>37 DEF Next


-----------------------------------------------------------------------------
\* A request under way still finds what it goes on with.
LEMMA RequestStep ==
  ASSUME TypeOK, RequestOK, Next \/ UNCHANGED vars
  PROVE  RequestOK'
<1> USE TeamAssumption DEF TypeOK, MembersOK, RequestsOK, RequestRecord, RequestOK,
          members, given, roles, plan
<1>1. ASSUME NEW q \in Requests, NEW u \in Users, NEW n \in AllNames \cup AppRoles,
             NEW as \in SUBSET AppRoles, Invite(q, u, n, as)
      PROVE  RequestOK'
  BY <1>1 DEF Invite, Arrives, Idle
<1>2. ASSUME NEW q \in Requests, NEW u \in Users, Accept(q, u) PROVE RequestOK'
  BY <1>2 DEF Accept, Arrives, Idle
<1>3. ASSUME NEW q \in Requests, NEW u \in Users, NEW r \in Roles, ChangeRole(q, u, r)
      PROVE  RequestOK'
  BY <1>3 DEF ChangeRole, Arrives, Idle
<1>4. ASSUME NEW q \in Requests, NEW u \in Users, NEW a \in AppRoles, Assign(q, u, a)
      PROVE  RequestOK'
  BY <1>4 DEF Assign, Arrives, Idle
<1>5. ASSUME NEW q \in Requests, NEW u \in Users, NEW a \in AppRoles, Unassign(q, u, a)
      PROVE  RequestOK'
  BY <1>5 DEF Unassign, Arrives, Idle
<1>6. ASSUME NEW q \in Requests, CountSeats(q) PROVE RequestOK'
  BY <1>6 DEF CountSeats, GoesOn
<1>7. ASSUME NEW q \in Requests, RejectSeat(q) PROVE RequestOK'
  <2>1. UNCHANGED <<members, plan>> /\ request' = [request EXCEPT ![q] = Idle]
    BY <1>7 DEF RejectSeat, Answers, GoesOn
  <2>2. limit \in Nat /\ peak \in Nat
    BY TeamAssumption
  <2> QED
    BY <2>1, <2>2 DEF Idle
<1>8. ASSUME NEW q \in Requests, AddMember(q) PROVE RequestOK'
  <2>1. \A o \in Requests : o # q => request'[o] = request[o]
    BY <1>8 DEF AddMember, Answers, GoesOn
  <2>2. request'[q] = Idle /\ status' = [status EXCEPT ![request[q].user] = "INVITED"] /\ UNCHANGED plan
    BY <1>8 DEF AddMember, Answers, GoesOn
  <2>3. \A v \in Users : status[v] # "none" => status'[v] # "none"
    BY <2>2
  <2>4. \A o \in Requests : request[o].user \in Users /\ request[o].limit <= peak
    OBVIOUS
  <2>5. 0 <= peak
    OBVIOUS
  <2> QED
    BY <2>1, <2>2, <2>3, <2>4, <2>5 DEF Idle
<1>9. ASSUME NEW q \in Requests, Activate(q) PROVE RequestOK'
  <2>1. \A o \in Requests : o # q => request'[o] = request[o]
    BY <1>9 DEF Activate, Answers, GoesOn
  <2>2. request'[q] = Idle /\ status' = [status EXCEPT ![request[q].user] = "ACTIVE"] /\ UNCHANGED plan
    BY <1>9 DEF Activate, Answers, GoesOn
  <2>3. \A v \in Users : status[v] # "none" => status'[v] # "none"
    BY <2>2
  <2>4. \A o \in Requests : request[o].user \in Users /\ request[o].limit <= peak
    OBVIOUS
  <2>5. 0 <= peak
    OBVIOUS
  <2> QED
    BY <2>1, <2>2, <2>3, <2>4, <2>5 DEF Idle
<1>10. ASSUME NEW q \in Requests, DropBindings(q) PROVE RequestOK'
  BY <1>10 DEF DropBindings, GoesOn
<1>11. ASSUME NEW q \in Requests, BindRole(q) PROVE RequestOK'
  BY <1>11 DEF BindRole, Answers, GoesOn, Idle
<1>12. ASSUME NEW q \in Requests, SetAppRole(q) PROVE RequestOK'
  BY <1>12 DEF SetAppRole, Answers, GoesOn, Idle
<1>13. ASSUME NEW q \in Requests, Fails(q) PROVE RequestOK'
  BY <1>13 DEF Fails, Answers, GoesOn, Idle
<1>14. ASSUME NEW q \in Requests, NEW n \in Names, NEW ps \in SUBSET Perms, CreateRole(q, n, ps)
      PROVE  RequestOK'
  BY <1>14 DEF CreateRole, Arrives, Idle
<1>15. ASSUME NEW q \in Requests, NEW c \in CustomRoles, InsertRole(q, c) PROVE RequestOK'
  BY <1>15 DEF InsertRole, Answers, GoesOn, Idle
<1>16. ASSUME NEW q \in Requests, NEW c \in CustomRoles, DeleteRole(q, c) PROVE RequestOK'
  BY <1>16 DEF DeleteRole, Arrives, Idle
<1>17. ASSUME NEW q \in Requests, NEW c \in CustomRoles, NEW ps \in SUBSET Perms, EditRole(q, c, ps)
      PROVE  RequestOK'
  BY <1>17 DEF EditRole, Arrives, Idle
<1>18. ASSUME NEW q \in Requests, DropPermissions(q) PROVE RequestOK'
  BY <1>18 DEF DropPermissions, GoesOn
<1>19. ASSUME NEW q \in Requests, WritePermissions(q) PROVE RequestOK'
  BY <1>19 DEF WritePermissions, Answers, GoesOn, Idle
<1>20. ASSUME NEW q \in Requests, RemoveRole(q) PROVE RequestOK'
  BY <1>20 DEF RemoveRole, RemoveRow, Answers, GoesOn, Idle
<1>21. ASSUME NEW u \in Users, ScimCreateUser(u) PROVE RequestOK'
  BY <1>21 DEF ScimCreateUser
<1>22. ASSUME NEW c \in CustomRoles, NEW us \in SUBSET Users, ScimRemoveMembers(c, us)
      PROVE  RequestOK'
  BY <1>22 DEF ScimRemoveMembers
<1>23. ASSUME NEW c \in CustomRoles, NEW n \in AllNames, ScimRename(c, n) PROVE RequestOK'
  BY <1>23 DEF ScimRename
<1>24. ASSUME NEW c \in CustomRoles, ScimDeleteGroup(c) PROVE RequestOK'
  BY <1>24 DEF ScimDeleteGroup, RemoveRow
<1>25. ASSUME NEW q \in Requests, NEW c \in CustomRoles, NEW us \in SUBSET Users, ScimClearGroup(q, c, us)
      PROVE  RequestOK'
  BY <1>25 DEF ScimClearGroup, Arrives, Idle
<1>26. ASSUME NEW q \in Requests, NEW c \in CustomRoles, NEW us \in SUBSET Users, ScimAddMembers(q, c, us)
      PROVE  RequestOK'
  BY <1>26 DEF ScimAddMembers, Arrives, Idle
<1>27. ASSUME NEW q \in Requests, NEW c \in CustomRoles, NEW n \in AllNames, NEW us \in SUBSET Users, ScimCreateGroup(q, c, n, us)
      PROVE  RequestOK'
  BY <1>27 DEF ScimCreateGroup, Fresh, Arrives, Idle
<1>28. ASSUME NEW q \in Requests, ScimFillGroup(q) PROVE RequestOK'
  BY <1>28 DEF ScimFillGroup, Answers, GoesOn, Idle
<1>29. ASSUME NEW q \in Requests, NEW u \in Users, SignIn(q, u) PROVE RequestOK'
  BY <1>29 DEF SignIn, Arrives, Idle
<1>30. ASSUME NEW q \in Requests, BindDefault(q) PROVE RequestOK'
  BY <1>30 DEF BindDefault, Answers, GoesOn, Idle
<1>31. ASSUME NEW l \in Limits, SetLimit(l) PROVE RequestOK'
  <2>1. limit' = l /\ peak' = (IF l > peak THEN l ELSE peak) /\ UNCHANGED <<request, status>>
    BY <1>31 DEF SetLimit
  <2>2. limit' <= peak' /\ peak <= peak' /\ peak \in Nat /\ peak' \in Nat
    BY <2>1
  <2>3. \A o \in Requests : request[o] \in RequestRecord
    OBVIOUS
  <2>4. \A o \in Requests : request[o].limit \in Limits \cup {0}
    BY <2>3
  <2>5. \A o \in Requests : request[o].limit <= peak'
    <3>1. TAKE o \in Requests
    <3>2. request[o].limit \in Nat /\ request[o].limit <= peak
      BY LimitsOK
    <3> HIDE DEF RequestOK, RequestsOK, RequestRecord, TypeOK, MembersOK
    <3> QED
      BY <2>2, <3>2
  <2> QED
    BY <2>1, <2>2, <2>5
<1>32. ASSUME NEW a \in AppRoles, SetActive(a) PROVE RequestOK'
  BY <1>32 DEF SetActive
<1>33. ASSUME UNCHANGED vars PROVE RequestOK'
  BY <1>33 DEF vars
<1>34. ASSUME NEW q \in Requests, TeamRoutes(q) PROVE RequestOK'
  BY <1>1, <1>2, <1>3, <1>4, <1>5, <1>6, <1>7, <1>8, <1>9, <1>10, <1>11, <1>12, <1>13,
     <1>34 DEF TeamRoutes
<1>35. ASSUME NEW q \in Requests, RoleRoutes(q) PROVE RequestOK'
  BY <1>14, <1>15, <1>16, <1>17, <1>18, <1>19, <1>20, <1>35 DEF RoleRoutes
<1>36. ASSUME ScimRoutes PROVE RequestOK'
  BY <1>21, <1>22, <1>23, <1>24, <1>25, <1>26, <1>27, <1>28, <1>36 DEF ScimRoutes, Lists
<1>37. ASSUME SignIns PROVE RequestOK'
  BY <1>29, <1>30, <1>37 DEF SignIns
<1> QED
  BY <1>31, <1>32, <1>33, <1>34, <1>35, <1>36, <1>37 DEF Next

-----------------------------------------------------------------------------
\* Members and pending additions are finite sets.
LEMMA SeatSets ==
  ASSUME TypeOK
  PROVE  /\ IsFiniteSet(Members) /\ IsFiniteSet(Seated) /\ IsFiniteSet(Counted)
         /\ Cardinality(Members) \in Nat /\ Cardinality(Seated) \in Nat
         /\ Cardinality(Counted) \in Nat /\ Cardinality(Requests) \in Nat
         /\ Cardinality(Counted) <= Cardinality(Requests)
         /\ Cardinality(Seated) <= Cardinality(Members)
<1>1. Members \subseteq Users /\ Seated \subseteq Members /\ Counted \subseteq Requests
  BY DEF Members, Seated, Counted
<1> QED
  BY <1>1, TeamAssumption, FS_Subset, FS_CardinalityType

\* A step that takes no seat keeps the count.
LEMMA SeatsStay ==
  ASSUME TypeOK, TypeOK', SeatInv, SeatsKept
  PROVE  SeatInv'
<1>1. /\ Cardinality(Seated') \in Nat /\ Cardinality(Seated') <= Cardinality(Seated)
      /\ Cardinality(Counted') \in Nat /\ Cardinality(Counted') <= Cardinality(Counted)
  BY SeatSets, FS_Subset, FS_CardinalityType DEF SeatsKept
<1>2. Cardinality(Seated) \in Nat /\ Cardinality(Counted) \in Nat /\ Cardinality(Requests) \in Nat
  BY SeatSets
<1>3. peak \in Nat /\ peak' \in Nat
  BY TeamAssumption DEF TypeOK, RequestsOK
<1> QED
  BY <1>1, <1>2, <1>3 DEF SeatInv, SeatsKept

\* A step takes no seat, or keeps the count as it takes one.
LEMMA SeatStep ==
  ASSUME TypeOK, RequestOK, SeatInv, Next \/ UNCHANGED vars
  PROVE  SeatsKept \/ SeatInv'
<1> USE DEF members, given, roles, plan
<1>0. peak \in Nat /\ status \in [Users -> {"none", "INVITED", "ACTIVE"}]
      /\ request \in [Requests -> RequestRecord]
  BY TeamAssumption DEF TypeOK, RequestsOK, MembersOK
<1>a. \A q \in Requests : request[q].user \in Users
  BY <1>0 DEF RequestRecord
<1>1. ASSUME NEW q \in Requests, NEW u \in Users, NEW n \in AllNames \cup AppRoles,
             NEW as \in SUBSET AppRoles, Invite(q, u, n, as)
      PROVE  SeatsKept \/ SeatInv'
  BY <1>1, <1>0, <1>a DEF Invite, Arrives, SeatsKept, Seated, Counted, Members
<1>2. ASSUME NEW q \in Requests, NEW u \in Users, Accept(q, u) PROVE SeatsKept \/ SeatInv'
  BY <1>2, <1>0, <1>a DEF Accept, Arrives, SeatsKept, Seated, Counted, Members
<1>3. ASSUME NEW q \in Requests, NEW u \in Users, NEW r \in Roles, ChangeRole(q, u, r)
      PROVE  SeatsKept \/ SeatInv'
  BY <1>3, <1>0, <1>a DEF ChangeRole, Arrives, SeatsKept, Seated, Counted, Members
<1>4. ASSUME NEW q \in Requests, NEW u \in Users, NEW a \in AppRoles, Assign(q, u, a)
      PROVE  SeatsKept \/ SeatInv'
  BY <1>4, <1>0, <1>a DEF Assign, Arrives, SeatsKept, Seated, Counted, Members
<1>5. ASSUME NEW q \in Requests, NEW u \in Users, NEW a \in AppRoles, Unassign(q, u, a)
      PROVE  SeatsKept \/ SeatInv'
  BY <1>5, <1>0, <1>a DEF Unassign, Arrives, SeatsKept, Seated, Counted, Members
<1>6. ASSUME NEW q \in Requests, CountSeats(q) PROVE SeatsKept \/ SeatInv'
  <2>1. CASE status[request[q].user] # "none"
    BY <1>6, <2>1, <1>0, <1>a DEF CountSeats, GoesOn, SeatsKept, Seated, Counted, Members
  <2>2. CASE Cardinality(Members) < request[q].limit
    <3>1. Seated' = Seated /\ peak' = peak
      BY <1>6 DEF CountSeats, Seated, Members
    <3>2. Counted' \subseteq Requests
      BY DEF Counted
    <3>3. Cardinality(Counted') \in Nat /\ Cardinality(Counted') <= Cardinality(Requests)
      BY <3>2, TeamAssumption, FS_Subset, FS_CardinalityType
    <3>4. request[q].limit \in Nat /\ request[q].limit <= peak
      BY LimitsOK DEF TypeOK
    <3>5. Cardinality(Seated) <= peak - 1
      BY <2>2, <3>4, <1>0, SeatSets
    <3> QED
      BY <1>0, <3>1, <3>3, <3>5, SeatSets DEF SeatInv
  <2> QED
    BY <1>6, <2>1, <2>2 DEF CountSeats
<1>7. ASSUME NEW q \in Requests, RejectSeat(q) PROVE SeatsKept \/ SeatInv'
  BY <1>7, <1>0, <1>a DEF RejectSeat, Answers, GoesOn, Idle, SeatsKept, Seated, Counted, Members
<1>8. ASSUME NEW q \in Requests, AddMember(q) PROVE SeatsKept \/ SeatInv'
  <2> DEFINE u == request[q].user
  <2>1. /\ status' = [status EXCEPT ![u] = "INVITED"] /\ UNCHANGED <<walkIns, peak>>
        /\ request' = [request EXCEPT ![q] = Idle] /\ request[q].op = "add"
    BY <1>8 DEF AddMember, Answers, GoesOn
  <2>2. CASE status[u] # "none"
    BY <2>1, <2>2, <1>0, <1>a DEF Idle, SeatsKept, Seated, Counted, Members
  <2>3. CASE status[u] = "none"
    <3>1. Seated' \subseteq Seated \cup {u}
      BY <2>1, <1>0 DEF Seated, Members
    <3>2. Counted' \subseteq Counted \ {q} /\ q \in Counted
      BY <2>1, <2>3, <1>0, <1>a DEF Counted, Idle
    <3>3. Cardinality(Seated') \in Nat /\ Cardinality(Seated') <= Cardinality(Seated) + 1
      <4>1. IsFiniteSet(Seated \cup {u}) /\ Cardinality(Seated \cup {u}) <= Cardinality(Seated) + 1
        <5>1. IsFiniteSet(Seated \cup {u}) /\ Cardinality(Seated \cup {u}) =
                IF u \in Seated THEN Cardinality(Seated) ELSE Cardinality(Seated) + 1
          BY SeatSets, FS_AddElement
        <5> QED
          BY <5>1, SeatSets
      <4>2. IsFiniteSet(Seated') /\ Cardinality(Seated') <= Cardinality(Seated \cup {u})
        BY <3>1, <4>1, FS_Subset
      <4> QED
        BY <4>1, <4>2, SeatSets, FS_CardinalityType
    <3>4. Cardinality(Counted') \in Nat /\ Cardinality(Counted') <= Cardinality(Counted) - 1
      <4>1. IsFiniteSet(Counted \ {q}) /\ Cardinality(Counted \ {q}) = Cardinality(Counted) - 1
        BY <3>2, SeatSets, FS_RemoveElement
      <4>2. IsFiniteSet(Counted') /\ Cardinality(Counted') <= Cardinality(Counted \ {q})
        BY <3>2, <4>1, FS_Subset
      <4> QED
        BY <4>1, <4>2, FS_CardinalityType
    <3> QED
      BY <1>0, <2>1, <3>3, <3>4, SeatSets DEF SeatInv
  <2> QED
    BY <2>2, <2>3
<1>9. ASSUME NEW q \in Requests, Activate(q) PROVE SeatsKept \/ SeatInv'
  <2>1. status[request[q].user] # "none"
    BY <1>9 DEF Activate, RequestOK
  <2> QED
    BY <1>9, <2>1, <1>0, <1>a DEF Activate, Answers, GoesOn, Idle, SeatsKept, Seated, Counted,
       Members
<1>10. ASSUME NEW q \in Requests, DropBindings(q) PROVE SeatsKept \/ SeatInv'
  BY <1>10, <1>0, <1>a DEF DropBindings, GoesOn, SeatsKept, Seated, Counted, Members
<1>11. ASSUME NEW q \in Requests, BindRole(q) PROVE SeatsKept \/ SeatInv'
  BY <1>11, <1>0, <1>a DEF BindRole, Answers, GoesOn, Idle, SeatsKept, Seated, Counted, Members
<1>12. ASSUME NEW q \in Requests, SetAppRole(q) PROVE SeatsKept \/ SeatInv'
  BY <1>12, <1>0, <1>a DEF SetAppRole, Answers, GoesOn, Idle, SeatsKept, Seated, Counted, Members
<1>13. ASSUME NEW q \in Requests, Fails(q) PROVE SeatsKept \/ SeatInv'
  BY <1>13, <1>0, <1>a DEF Fails, Answers, GoesOn, Idle, SeatsKept, Seated, Counted, Members
<1>14. ASSUME NEW q \in Requests, NEW n \in Names, NEW ps \in SUBSET Perms, CreateRole(q, n, ps)
      PROVE  SeatsKept \/ SeatInv'
  BY <1>14, <1>0, <1>a DEF CreateRole, Arrives, SeatsKept, Seated, Counted, Members
<1>15. ASSUME NEW q \in Requests, NEW c \in CustomRoles, InsertRole(q, c)
      PROVE  SeatsKept \/ SeatInv'
  BY <1>15, <1>0, <1>a DEF InsertRole, Answers, GoesOn, Idle, SeatsKept, Seated, Counted, Members
<1>16. ASSUME NEW q \in Requests, NEW c \in CustomRoles, DeleteRole(q, c)
      PROVE  SeatsKept \/ SeatInv'
  BY <1>16, <1>0, <1>a DEF DeleteRole, Arrives, SeatsKept, Seated, Counted, Members
<1>17. ASSUME NEW q \in Requests, NEW c \in CustomRoles, NEW ps \in SUBSET Perms, EditRole(q, c, ps)
      PROVE  SeatsKept \/ SeatInv'
  BY <1>17, <1>0, <1>a DEF EditRole, Arrives, SeatsKept, Seated, Counted, Members
<1>18. ASSUME NEW q \in Requests, DropPermissions(q) PROVE SeatsKept \/ SeatInv'
  BY <1>18, <1>0, <1>a DEF DropPermissions, GoesOn, SeatsKept, Seated, Counted, Members
<1>19. ASSUME NEW q \in Requests, WritePermissions(q) PROVE SeatsKept \/ SeatInv'
  BY <1>19, <1>0, <1>a DEF WritePermissions, Answers, GoesOn, Idle, SeatsKept, Seated, Counted,
     Members
<1>20. ASSUME NEW q \in Requests, RemoveRole(q) PROVE SeatsKept \/ SeatInv'
  BY <1>20, <1>0, <1>a DEF RemoveRole, Answers, GoesOn, Idle, SeatsKept, Seated, Counted, Members
<1>21. ASSUME NEW u \in Users, ScimCreateUser(u) PROVE SeatsKept \/ SeatInv'
  BY <1>21, <1>0, <1>a DEF ScimCreateUser, SeatsKept, Seated, Counted, Members
<1>22. ASSUME NEW c \in CustomRoles, NEW us \in SUBSET Users, ScimRemoveMembers(c, us)
      PROVE  SeatsKept \/ SeatInv'
  BY <1>22, <1>0, <1>a DEF ScimRemoveMembers, SeatsKept, Seated, Counted, Members
<1>23. ASSUME NEW c \in CustomRoles, NEW n \in AllNames, ScimRename(c, n)
      PROVE  SeatsKept \/ SeatInv'
  BY <1>23, <1>0, <1>a DEF ScimRename, SeatsKept, Seated, Counted, Members
<1>24. ASSUME NEW c \in CustomRoles, ScimDeleteGroup(c) PROVE SeatsKept \/ SeatInv'
  BY <1>24, <1>0, <1>a DEF ScimDeleteGroup, SeatsKept, Seated, Counted, Members
<1>25. ASSUME NEW q \in Requests, NEW c \in CustomRoles, NEW us \in SUBSET Users, ScimClearGroup(q, c, us)
      PROVE  SeatsKept \/ SeatInv'
  BY <1>25, <1>0, <1>a DEF ScimClearGroup, Arrives, SeatsKept, Seated, Counted, Members
<1>26. ASSUME NEW q \in Requests, NEW c \in CustomRoles, NEW us \in SUBSET Users, ScimAddMembers(q, c, us)
      PROVE  SeatsKept \/ SeatInv'
  BY <1>26, <1>0, <1>a DEF ScimAddMembers, Arrives, SeatsKept, Seated, Counted, Members
<1>27. ASSUME NEW q \in Requests, NEW c \in CustomRoles, NEW n \in AllNames, NEW us \in SUBSET Users, ScimCreateGroup(q, c, n, us)
      PROVE  SeatsKept \/ SeatInv'
  BY <1>27, <1>0, <1>a DEF ScimCreateGroup, Arrives, SeatsKept, Seated, Counted, Members
<1>28. ASSUME NEW q \in Requests, ScimFillGroup(q) PROVE SeatsKept \/ SeatInv'
  BY <1>28, <1>0, <1>a DEF ScimFillGroup, Answers, GoesOn, Idle, SeatsKept, Seated, Counted,
     Members
<1>29. ASSUME NEW q \in Requests, NEW u \in Users, SignIn(q, u) PROVE SeatsKept \/ SeatInv'
  BY <1>29, <1>0, <1>a DEF SignIn, Arrives, SeatsKept, Seated, Counted, Members
<1>30. ASSUME NEW q \in Requests, BindDefault(q) PROVE SeatsKept \/ SeatInv'
  BY <1>30, <1>0, <1>a DEF BindDefault, Answers, GoesOn, Idle, SeatsKept, Seated, Counted, Members
<1>31. ASSUME NEW l \in Limits, SetLimit(l) PROVE SeatsKept \/ SeatInv'
  <2>1. Seated' = Seated /\ Counted' = Counted
    BY <1>31 DEF SetLimit, Seated, Counted, Members
  <2>2. peak <= peak'
    BY <1>31, <1>0, TeamAssumption DEF SetLimit
  <2> QED
    BY <2>1, <2>2 DEF SeatsKept
<1>32. ASSUME NEW a \in AppRoles, SetActive(a) PROVE SeatsKept \/ SeatInv'
  BY <1>32, <1>0, <1>a DEF SetActive, SeatsKept, Seated, Counted, Members
<1>33. ASSUME UNCHANGED vars PROVE SeatsKept \/ SeatInv'
  BY <1>33, <1>0 DEF vars, SeatsKept, Seated, Counted, Members
<1>34. ASSUME NEW q \in Requests, TeamRoutes(q) PROVE SeatsKept \/ SeatInv'
  BY <1>1, <1>2, <1>3, <1>4, <1>5, <1>6, <1>7, <1>8, <1>9, <1>10, <1>11, <1>12, <1>13,
     <1>34 DEF TeamRoutes
<1>35. ASSUME NEW q \in Requests, RoleRoutes(q) PROVE SeatsKept \/ SeatInv'
  BY <1>14, <1>15, <1>16, <1>17, <1>18, <1>19, <1>20, <1>35 DEF RoleRoutes
<1>36. ASSUME ScimRoutes PROVE SeatsKept \/ SeatInv'
  BY <1>21, <1>22, <1>23, <1>24, <1>25, <1>26, <1>27, <1>28, <1>36 DEF ScimRoutes, Lists
<1>37. ASSUME SignIns PROVE SeatsKept \/ SeatInv'
  BY <1>29, <1>30, <1>37 DEF SignIns
<1> QED
  BY <1>31, <1>32, <1>33, <1>34, <1>35, <1>36, <1>37 DEF Next

\* The base role of a member is the last that was given.
LEMMA RoleStep ==
  ASSUME TypeOK, RequestOK, RoleInv, Next \/ UNCHANGED vars
  PROVE  RoleInv'
<1> USE TeamAssumption DEF TypeOK, MembersOK, GivenOK, RequestsOK, RequestRecord, RequestOK,
      RoleInv,
          RoleHolds, members, given, roles, plan
<1>1. ASSUME NEW q \in Requests, NEW u \in Users, NEW n \in AllNames \cup AppRoles,
             NEW as \in SUBSET AppRoles, Invite(q, u, n, as)
      PROVE  RoleInv'
  BY <1>1 DEF Invite, Arrives, Idle
<1>2. ASSUME NEW q \in Requests, NEW u \in Users, Accept(q, u) PROVE RoleInv'
  BY <1>2 DEF Accept, Arrives, Idle
<1>3. ASSUME NEW q \in Requests, NEW u \in Users, NEW r \in Roles, ChangeRole(q, u, r)
      PROVE  RoleInv'
  BY <1>3 DEF ChangeRole, Arrives, Idle
<1>4. ASSUME NEW q \in Requests, NEW u \in Users, NEW a \in AppRoles, Assign(q, u, a)
      PROVE  RoleInv'
  BY <1>4 DEF Assign, Arrives, Idle
<1>5. ASSUME NEW q \in Requests, NEW u \in Users, NEW a \in AppRoles, Unassign(q, u, a)
      PROVE  RoleInv'
  BY <1>5 DEF Unassign, Arrives, Idle
<1>6. ASSUME NEW q \in Requests, CountSeats(q) PROVE RoleInv'
  BY <1>6 DEF CountSeats, GoesOn
<1>7. ASSUME NEW q \in Requests, RejectSeat(q) PROVE RoleInv'
  BY <1>7 DEF RejectSeat, Answers, GoesOn, Idle
<1>8. ASSUME NEW q \in Requests, AddMember(q) PROVE RoleInv'
  BY <1>8 DEF AddMember, Answers, GoesOn, Idle
<1>9. ASSUME NEW q \in Requests, Activate(q) PROVE RoleInv'
  BY <1>9 DEF Activate, Answers, GoesOn, Idle
<1>10. ASSUME NEW q \in Requests, DropBindings(q) PROVE RoleInv'
  BY <1>10 DEF DropBindings, GoesOn
<1>11. ASSUME NEW q \in Requests, BindRole(q) PROVE RoleInv'
  <2> DEFINE u == request[q].user
             kept == bindings[u] \ request[q].old
  <2>1. u \notin disturbed => kept \cap Roles = {}
    BY <1>11 DEF BindRole
  <2>2. u \in Users /\ request[q].role \in Roles /\ request[q].role # None /\ status[u] # "none"
    BY <1>11 DEF BindRole
  <2>3. /\ bindings' = [bindings EXCEPT ![u] = kept \cup {request[q].role}]
        /\ due' = [due EXCEPT ![u] = request[q].role] /\ UNCHANGED status
        /\ disturbed' = IF Replacing(q, u) THEN disturbed \cup {u} ELSE disturbed
    BY <1>11 DEF BindRole
  <2>4. \A o \in Requests : request'[o].op = "replace" => o # q /\ request'[o] = request[o]
    BY <1>11 DEF BindRole, Answers, GoesOn, Idle
  <2>5. RoleHolds'
    BY <2>1, <2>2, <2>3
  <2>6. \A v \in Users \ disturbed' : status'[v] = "none" => due'[v] = None
    BY <2>2, <2>3
  <2>7. \A o \in Requests : request'[o].op = "replace" /\ request'[o].user \notin disturbed'
          => bindings'[request'[o].user] \cap Roles \subseteq request'[o].old
    BY <2>2, <2>3, <2>4 DEF Replacing
  <2> QED
    BY <2>5, <2>6, <2>7
<1>12. ASSUME NEW q \in Requests, SetAppRole(q) PROVE RoleInv'
  BY <1>12 DEF SetAppRole, Answers, GoesOn, Idle
<1>13. ASSUME NEW q \in Requests, Fails(q) PROVE RoleInv'
  BY <1>13 DEF Fails, Answers, GoesOn, Idle
<1>14. ASSUME NEW q \in Requests, NEW n \in Names, NEW ps \in SUBSET Perms, CreateRole(q, n, ps)
      PROVE  RoleInv'
  BY <1>14 DEF CreateRole, Arrives, Idle
<1>15. ASSUME NEW q \in Requests, NEW c \in CustomRoles, InsertRole(q, c) PROVE RoleInv'
  BY <1>15 DEF InsertRole, Answers, GoesOn, Idle
<1>16. ASSUME NEW q \in Requests, NEW c \in CustomRoles, DeleteRole(q, c) PROVE RoleInv'
  BY <1>16 DEF DeleteRole, Arrives, Idle
<1>17. ASSUME NEW q \in Requests, NEW c \in CustomRoles, NEW ps \in SUBSET Perms, EditRole(q, c, ps)
      PROVE  RoleInv'
  BY <1>17 DEF EditRole, Arrives, Idle
<1>18. ASSUME NEW q \in Requests, DropPermissions(q) PROVE RoleInv'
  BY <1>18 DEF DropPermissions, GoesOn
<1>19. ASSUME NEW q \in Requests, WritePermissions(q) PROVE RoleInv'
  BY <1>19 DEF WritePermissions, Answers, GoesOn, Idle
<1>20. ASSUME NEW q \in Requests, RemoveRole(q) PROVE RoleInv'
  BY <1>20 DEF RemoveRole, RemoveRow, Answers, GoesOn, Idle
<1>21. ASSUME NEW u \in Users, ScimCreateUser(u) PROVE RoleInv'
  BY <1>21 DEF ScimCreateUser
<1>22. ASSUME NEW c \in CustomRoles, NEW us \in SUBSET Users, ScimRemoveMembers(c, us)
      PROVE  RoleInv'
  BY <1>22 DEF ScimRemoveMembers
<1>23. ASSUME NEW c \in CustomRoles, NEW n \in AllNames, ScimRename(c, n) PROVE RoleInv'
  BY <1>23 DEF ScimRename
<1>24. ASSUME NEW c \in CustomRoles, ScimDeleteGroup(c) PROVE RoleInv'
  BY <1>24 DEF ScimDeleteGroup, RemoveRow
<1>25. ASSUME NEW q \in Requests, NEW c \in CustomRoles, NEW us \in SUBSET Users, ScimClearGroup(q, c, us)
      PROVE  RoleInv'
  BY <1>25 DEF ScimClearGroup, Arrives, Idle
<1>26. ASSUME NEW q \in Requests, NEW c \in CustomRoles, NEW us \in SUBSET Users, ScimAddMembers(q, c, us)
      PROVE  RoleInv'
  BY <1>26 DEF ScimAddMembers, Arrives, Idle
<1>27. ASSUME NEW q \in Requests, NEW c \in CustomRoles, NEW n \in AllNames, NEW us \in SUBSET Users, ScimCreateGroup(q, c, n, us)
      PROVE  RoleInv'
  BY <1>27 DEF ScimCreateGroup, Fresh, Arrives, Idle
<1>28. ASSUME NEW q \in Requests, ScimFillGroup(q) PROVE RoleInv'
  BY <1>28 DEF ScimFillGroup, Answers, GoesOn, Idle
<1>29. ASSUME NEW q \in Requests, NEW u \in Users, SignIn(q, u) PROVE RoleInv'
  BY <1>29 DEF SignIn, Arrives, Idle
<1>30. ASSUME NEW q \in Requests, BindDefault(q) PROVE RoleInv'
  BY <1>30 DEF BindDefault, Answers, GoesOn, Idle
<1>31. ASSUME NEW l \in Limits, SetLimit(l) PROVE RoleInv'
  BY <1>31 DEF SetLimit
<1>32. ASSUME NEW a \in AppRoles, SetActive(a) PROVE RoleInv'
  BY <1>32 DEF SetActive
<1>33. ASSUME UNCHANGED vars PROVE RoleInv'
  BY <1>33 DEF vars
<1>34. ASSUME NEW q \in Requests, TeamRoutes(q) PROVE RoleInv'
  BY <1>1, <1>2, <1>3, <1>4, <1>5, <1>6, <1>7, <1>8, <1>9, <1>10, <1>11, <1>12, <1>13,
     <1>34 DEF TeamRoutes
<1>35. ASSUME NEW q \in Requests, RoleRoutes(q) PROVE RoleInv'
  BY <1>14, <1>15, <1>16, <1>17, <1>18, <1>19, <1>20, <1>35 DEF RoleRoutes
<1>36. ASSUME ScimRoutes PROVE RoleInv'
  BY <1>21, <1>22, <1>23, <1>24, <1>25, <1>26, <1>27, <1>28, <1>36 DEF ScimRoutes, Lists
<1>37. ASSUME SignIns PROVE RoleInv'
  BY <1>29, <1>30, <1>37 DEF SignIns
<1> QED
  BY <1>31, <1>32, <1>33, <1>34, <1>35, <1>36, <1>37 DEF Next

\* A name is looked up, and taken, by one role.
LEMMA NameStep ==
  ASSUME TypeOK, RequestOK, NameInv, Next \/ UNCHANGED vars
  PROVE  NameInv'
<1> USE TeamAssumption DEF TypeOK, RolesOK, RequestsOK, RequestRecord, RequestOK, NameInv,
          NamesUnique, Named, members, given, roles, plan
<1>1. ASSUME NEW q \in Requests, NEW u \in Users, NEW n \in AllNames \cup AppRoles,
             NEW as \in SUBSET AppRoles, Invite(q, u, n, as)
      PROVE  NameInv'
  BY <1>1 DEF Invite, Arrives, Idle
<1>2. ASSUME NEW q \in Requests, NEW u \in Users, Accept(q, u) PROVE NameInv'
  BY <1>2 DEF Accept, Arrives, Idle
<1>3. ASSUME NEW q \in Requests, NEW u \in Users, NEW r \in Roles, ChangeRole(q, u, r)
      PROVE  NameInv'
  BY <1>3 DEF ChangeRole, Arrives, Idle
<1>4. ASSUME NEW q \in Requests, NEW u \in Users, NEW a \in AppRoles, Assign(q, u, a)
      PROVE  NameInv'
  BY <1>4 DEF Assign, Arrives, Idle
<1>5. ASSUME NEW q \in Requests, NEW u \in Users, NEW a \in AppRoles, Unassign(q, u, a)
      PROVE  NameInv'
  BY <1>5 DEF Unassign, Arrives, Idle
<1>6. ASSUME NEW q \in Requests, CountSeats(q) PROVE NameInv'
  BY <1>6 DEF CountSeats, GoesOn
<1>7. ASSUME NEW q \in Requests, RejectSeat(q) PROVE NameInv'
  BY <1>7 DEF RejectSeat, Answers, GoesOn, Idle
<1>8. ASSUME NEW q \in Requests, AddMember(q) PROVE NameInv'
  BY <1>8 DEF AddMember, Answers, GoesOn, Idle
<1>9. ASSUME NEW q \in Requests, Activate(q) PROVE NameInv'
  BY <1>9 DEF Activate, Answers, GoesOn, Idle
<1>10. ASSUME NEW q \in Requests, DropBindings(q) PROVE NameInv'
  BY <1>10 DEF DropBindings, GoesOn
<1>11. ASSUME NEW q \in Requests, BindRole(q) PROVE NameInv'
  BY <1>11 DEF BindRole, Answers, GoesOn, Idle
<1>12. ASSUME NEW q \in Requests, SetAppRole(q) PROVE NameInv'
  BY <1>12 DEF SetAppRole, Answers, GoesOn, Idle
<1>13. ASSUME NEW q \in Requests, Fails(q) PROVE NameInv'
  BY <1>13 DEF Fails, Answers, GoesOn, Idle
<1>14. ASSUME NEW q \in Requests, NEW n \in Names, NEW ps \in SUBSET Perms, CreateRole(q, n, ps)
      PROVE  NameInv'
  BY <1>14 DEF CreateRole, Arrives, Idle
<1>15. ASSUME NEW q \in Requests, NEW c \in CustomRoles, InsertRole(q, c) PROVE NameInv'
  <2> HIDE DEF Named
  <2> DEFINE n == request[q].want
  <2>1. /\ name' = [name EXCEPT ![c] = n] /\ name[c] = None /\ n \in Names /\ n # None
        /\ namesakes' = IF Creating(q, n) THEN namesakes \cup {n} ELSE namesakes
    BY <1>15 DEF InsertRole, Fresh, AllNames
  <2>2. \A m \in AllNames : m # n => Named(m)' = Named(m)
    BY <2>1 DEF Named
  <2>3. n \notin namesakes => Named(n) = {}
    BY <1>15 DEF InsertRole
  <2>4. \A m \in AllNames : m = n /\ m \notin namesakes => Named(m)' = {c}
    BY <2>1, <2>3 DEF Named
  <2>5. \A o \in Requests : request'[o].op = "create" =>
          o # q /\ request'[o] = request[o] /\ request[o].want \in AllNames
    BY <1>15 DEF InsertRole, Answers, GoesOn, Idle, AllNames
  <2>6. \A o \in Requests : request'[o].op = "create" /\ request'[o].want = n => n \in namesakes'
    BY <2>1, <2>5 DEF Creating
  <2>7. namesakes \in SUBSET namesakes'
    BY <2>1
  <2>8. (\A m \in AllNames \ namesakes : \A r, s \in Named(m) : r = s)'
    BY <2>2, <2>4, <2>7
  <2>9. (\A o \in Requests : request[o].op = "create" /\ request[o].want \notin namesakes
           => Named(request[o].want) = {})'
    <3> SUFFICES ASSUME NEW o \in Requests, request'[o].op = "create",
                        request'[o].want \notin namesakes'
                 PROVE  (Named(request[o].want) = {})'
      OBVIOUS
    <3>1. request[o].want # n /\ request'[o] = request[o] /\ request[o].want \in AllNames
      BY <2>5, <2>6
    <3>2. Named(request[o].want) = {}
      BY <2>5, <2>7, <3>1
    <3> QED
      BY <2>1, <3>1, <3>2 DEF Named
  <2> QED
    BY <2>8, <2>9
<1>16. ASSUME NEW q \in Requests, NEW c \in CustomRoles, DeleteRole(q, c) PROVE NameInv'
  BY <1>16 DEF DeleteRole, Arrives, Idle
<1>17. ASSUME NEW q \in Requests, NEW c \in CustomRoles, NEW ps \in SUBSET Perms, EditRole(q, c, ps)
      PROVE  NameInv'
  BY <1>17 DEF EditRole, Arrives, Idle
<1>18. ASSUME NEW q \in Requests, DropPermissions(q) PROVE NameInv'
  BY <1>18 DEF DropPermissions, GoesOn
<1>19. ASSUME NEW q \in Requests, WritePermissions(q) PROVE NameInv'
  BY <1>19 DEF WritePermissions, Answers, GoesOn, Idle
<1>20. ASSUME NEW q \in Requests, RemoveRole(q) PROVE NameInv'
  <2> HIDE DEF Named
  <2>1. \A m \in AllNames : Named(m)' \subseteq Named(m)
    BY <1>20, TeamAssumption DEF RemoveRole, RemoveRow, AllNames, Named
  <2>2. namesakes' = namesakes /\ \E c \in CustomRoles : name' = [name EXCEPT ![c] = None]
    BY <1>20 DEF RemoveRole, RemoveRow
  <2>3. \A o \in Requests : request'[o].op = "create" =>
          request'[o] = request[o] /\ request[o].want \in AllNames /\ request[o].want # None
    BY <1>20 DEF RemoveRole, Answers, GoesOn, Idle, AllNames
  <2>4. (\A m \in AllNames \ namesakes : \A r, s \in Named(m) : r = s)'
    BY <2>1, <2>2
  <2>5. (\A o \in Requests : request[o].op = "create" /\ request[o].want \notin namesakes
           => Named(request[o].want) = {})'
    <3> SUFFICES ASSUME NEW o \in Requests, request'[o].op = "create",
                        request'[o].want \notin namesakes'
                 PROVE  (Named(request[o].want) = {})'
      OBVIOUS
    <3>1. Named(request[o].want) = {}
      BY <2>2, <2>3
    <3> QED
      BY <2>2, <2>3, <3>1 DEF Named
  <2> QED
    BY <2>4, <2>5
<1>21. ASSUME NEW u \in Users, ScimCreateUser(u) PROVE NameInv'
  BY <1>21 DEF ScimCreateUser
<1>22. ASSUME NEW c \in CustomRoles, NEW us \in SUBSET Users, ScimRemoveMembers(c, us)
      PROVE  NameInv'
  BY <1>22 DEF ScimRemoveMembers
<1>23. ASSUME NEW c \in CustomRoles, NEW n \in AllNames, ScimRename(c, n) PROVE NameInv'
  BY <1>23 DEF ScimRename
<1>24. ASSUME NEW c \in CustomRoles, ScimDeleteGroup(c) PROVE NameInv'
  <2> HIDE DEF Named
  <2>1. \A m \in AllNames : Named(m)' \subseteq Named(m)
    BY <1>24, TeamAssumption DEF ScimDeleteGroup, RemoveRow, AllNames, Named
  <2>2. namesakes' = namesakes /\ \E d \in CustomRoles : name' = [name EXCEPT ![d] = None]
    BY <1>24 DEF ScimDeleteGroup, RemoveRow
  <2>3. \A o \in Requests : request'[o].op = "create" =>
          request'[o] = request[o] /\ request[o].want \in AllNames /\ request[o].want # None
    BY <1>24 DEF ScimDeleteGroup, AllNames
  <2>4. (\A m \in AllNames \ namesakes : \A r, s \in Named(m) : r = s)'
    BY <2>1, <2>2
  <2>5. (\A o \in Requests : request[o].op = "create" /\ request[o].want \notin namesakes
           => Named(request[o].want) = {})'
    <3> SUFFICES ASSUME NEW o \in Requests, request'[o].op = "create",
                        request'[o].want \notin namesakes'
                 PROVE  (Named(request[o].want) = {})'
      OBVIOUS
    <3>1. Named(request[o].want) = {}
      BY <2>2, <2>3
    <3> QED
      BY <2>2, <2>3, <3>1 DEF Named
  <2> QED
    BY <2>4, <2>5
<1>25. ASSUME NEW q \in Requests, NEW c \in CustomRoles, NEW us \in SUBSET Users, ScimClearGroup(q, c, us)
      PROVE  NameInv'
  BY <1>25 DEF ScimClearGroup, Arrives, Idle
<1>26. ASSUME NEW q \in Requests, NEW c \in CustomRoles, NEW us \in SUBSET Users, ScimAddMembers(q, c, us)
      PROVE  NameInv'
  BY <1>26 DEF ScimAddMembers, Arrives, Idle
<1>27. ASSUME NEW q \in Requests, NEW c \in CustomRoles, NEW n \in AllNames, NEW us \in SUBSET Users, ScimCreateGroup(q, c, n, us)
      PROVE  NameInv'
  BY <1>27 DEF ScimCreateGroup, Fresh, Arrives, Idle
<1>28. ASSUME NEW q \in Requests, ScimFillGroup(q) PROVE NameInv'
  BY <1>28 DEF ScimFillGroup, Answers, GoesOn, Idle
<1>29. ASSUME NEW q \in Requests, NEW u \in Users, SignIn(q, u) PROVE NameInv'
  BY <1>29 DEF SignIn, Arrives, Idle
<1>30. ASSUME NEW q \in Requests, BindDefault(q) PROVE NameInv'
  BY <1>30 DEF BindDefault, Answers, GoesOn, Idle
<1>31. ASSUME NEW l \in Limits, SetLimit(l) PROVE NameInv'
  BY <1>31 DEF SetLimit
<1>32. ASSUME NEW a \in AppRoles, SetActive(a) PROVE NameInv'
  BY <1>32 DEF SetActive
<1>33. ASSUME UNCHANGED vars PROVE NameInv'
  BY <1>33 DEF vars
<1>34. ASSUME NEW q \in Requests, TeamRoutes(q) PROVE NameInv'
  BY <1>1, <1>2, <1>3, <1>4, <1>5, <1>6, <1>7, <1>8, <1>9, <1>10, <1>11, <1>12, <1>13,
     <1>34 DEF TeamRoutes
<1>35. ASSUME NEW q \in Requests, RoleRoutes(q) PROVE NameInv'
  BY <1>14, <1>15, <1>16, <1>17, <1>18, <1>19, <1>20, <1>35 DEF RoleRoutes
<1>36. ASSUME ScimRoutes PROVE NameInv'
  BY <1>21, <1>22, <1>23, <1>24, <1>25, <1>26, <1>27, <1>28, <1>36 DEF ScimRoutes, Lists
<1>37. ASSUME SignIns PROVE NameInv'
  BY <1>29, <1>30, <1>37 DEF SignIns
<1> QED
  BY <1>31, <1>32, <1>33, <1>34, <1>35, <1>36, <1>37 DEF Next

\* The permissions of a role are those of the last edit.
LEMMA PermissionStep ==
  ASSUME TypeOK, RequestOK, PermissionInv, Next \/ UNCHANGED vars
  PROVE  PermissionInv'
<1> USE TeamAssumption DEF TypeOK, RolesOK, RequestsOK, RequestRecord, RequestOK, PermissionInv,
          PermissionsAsAsked, members, given, roles, plan
<1>1. ASSUME NEW q \in Requests, NEW u \in Users, NEW n \in AllNames \cup AppRoles,
             NEW as \in SUBSET AppRoles, Invite(q, u, n, as)
      PROVE  PermissionInv'
  BY <1>1 DEF Invite, Arrives, Idle
<1>2. ASSUME NEW q \in Requests, NEW u \in Users, Accept(q, u) PROVE PermissionInv'
  BY <1>2 DEF Accept, Arrives, Idle
<1>3. ASSUME NEW q \in Requests, NEW u \in Users, NEW r \in Roles, ChangeRole(q, u, r)
      PROVE  PermissionInv'
  BY <1>3 DEF ChangeRole, Arrives, Idle
<1>4. ASSUME NEW q \in Requests, NEW u \in Users, NEW a \in AppRoles, Assign(q, u, a)
      PROVE  PermissionInv'
  BY <1>4 DEF Assign, Arrives, Idle
<1>5. ASSUME NEW q \in Requests, NEW u \in Users, NEW a \in AppRoles, Unassign(q, u, a)
      PROVE  PermissionInv'
  BY <1>5 DEF Unassign, Arrives, Idle
<1>6. ASSUME NEW q \in Requests, CountSeats(q) PROVE PermissionInv'
  BY <1>6 DEF CountSeats, GoesOn
<1>7. ASSUME NEW q \in Requests, RejectSeat(q) PROVE PermissionInv'
  BY <1>7 DEF RejectSeat, Answers, GoesOn, Idle
<1>8. ASSUME NEW q \in Requests, AddMember(q) PROVE PermissionInv'
  BY <1>8 DEF AddMember, Answers, GoesOn, Idle
<1>9. ASSUME NEW q \in Requests, Activate(q) PROVE PermissionInv'
  BY <1>9 DEF Activate, Answers, GoesOn, Idle
<1>10. ASSUME NEW q \in Requests, DropBindings(q) PROVE PermissionInv'
  BY <1>10 DEF DropBindings, GoesOn
<1>11. ASSUME NEW q \in Requests, BindRole(q) PROVE PermissionInv'
  BY <1>11 DEF BindRole, Answers, GoesOn, Idle
<1>12. ASSUME NEW q \in Requests, SetAppRole(q) PROVE PermissionInv'
  BY <1>12 DEF SetAppRole, Answers, GoesOn, Idle
<1>13. ASSUME NEW q \in Requests, Fails(q) PROVE PermissionInv'
  BY <1>13 DEF Fails, Answers, GoesOn, Idle
<1>14. ASSUME NEW q \in Requests, NEW n \in Names, NEW ps \in SUBSET Perms, CreateRole(q, n, ps)
      PROVE  PermissionInv'
  BY <1>14 DEF CreateRole, Arrives, Idle
<1>15. ASSUME NEW q \in Requests, NEW c \in CustomRoles, InsertRole(q, c) PROVE PermissionInv'
  BY <1>15 DEF InsertRole, Fresh, Answers, GoesOn, Idle
<1>16. ASSUME NEW q \in Requests, NEW c \in CustomRoles, DeleteRole(q, c) PROVE PermissionInv'
  BY <1>16 DEF DeleteRole, Arrives, Idle
<1>17. ASSUME NEW q \in Requests, NEW c \in CustomRoles, NEW ps \in SUBSET Perms, EditRole(q, c, ps)
      PROVE  PermissionInv'
  BY <1>17 DEF EditRole, Arrives, Idle
<1>18. ASSUME NEW q \in Requests, DropPermissions(q) PROVE PermissionInv'
  BY <1>18 DEF DropPermissions, GoesOn
<1>19. ASSUME NEW q \in Requests, WritePermissions(q) PROVE PermissionInv'
  <2> DEFINE d == request[q].role
             kept == perms[d] \ request[q].old
  <2>1. d \in CustomRoles /\ request[q].picks \in SUBSET Perms /\ name[d] # None
    BY <1>19 DEF WritePermissions
  <2>2. d \notin mixed => kept = {}
    BY <1>19 DEF WritePermissions
  <2>3. /\ perms' = [perms EXCEPT ![d] = kept \cup request[q].picks]
        /\ asked' = [asked EXCEPT ![d] = request[q].picks] /\ UNCHANGED name
        /\ mixed' = IF Rewriting(q, d) THEN mixed \cup {d} ELSE mixed
    BY <1>19 DEF WritePermissions
  <2>4. \A o \in Requests : request'[o].op = "rewrite" => o # q /\ request'[o] = request[o]
    BY <1>19 DEF WritePermissions, Answers, GoesOn, Idle
  <2>5. PermissionsAsAsked'
    BY <2>1, <2>2, <2>3
  <2>6. \A b \in CustomRoles : name'[b] = None => perms'[b] = asked'[b]
    BY <2>1, <2>3
  <2>7. \A o \in Requests : request'[o].op = "rewrite" /\ request'[o].role \notin mixed'
          => perms'[request'[o].role] \subseteq request'[o].old
    BY <2>1, <2>3, <2>4 DEF Rewriting
  <2> QED
    BY <2>5, <2>6, <2>7
<1>20. ASSUME NEW q \in Requests, RemoveRole(q) PROVE PermissionInv'
  BY <1>20 DEF RemoveRole, RemoveRow, Answers, GoesOn, Idle
<1>21. ASSUME NEW u \in Users, ScimCreateUser(u) PROVE PermissionInv'
  BY <1>21 DEF ScimCreateUser
<1>22. ASSUME NEW c \in CustomRoles, NEW us \in SUBSET Users, ScimRemoveMembers(c, us)
      PROVE  PermissionInv'
  BY <1>22 DEF ScimRemoveMembers
<1>23. ASSUME NEW c \in CustomRoles, NEW n \in AllNames, ScimRename(c, n) PROVE PermissionInv'
  BY <1>23 DEF ScimRename
<1>24. ASSUME NEW c \in CustomRoles, ScimDeleteGroup(c) PROVE PermissionInv'
  BY <1>24 DEF ScimDeleteGroup, RemoveRow
<1>25. ASSUME NEW q \in Requests, NEW c \in CustomRoles, NEW us \in SUBSET Users, ScimClearGroup(q, c, us)
      PROVE  PermissionInv'
  BY <1>25 DEF ScimClearGroup, Arrives, Idle
<1>26. ASSUME NEW q \in Requests, NEW c \in CustomRoles, NEW us \in SUBSET Users, ScimAddMembers(q, c, us)
      PROVE  PermissionInv'
  BY <1>26 DEF ScimAddMembers, Arrives, Idle
<1>27. ASSUME NEW q \in Requests, NEW c \in CustomRoles, NEW n \in AllNames, NEW us \in SUBSET Users, ScimCreateGroup(q, c, n, us)
      PROVE  PermissionInv'
  BY <1>27 DEF ScimCreateGroup, Fresh, Arrives, Idle
<1>28. ASSUME NEW q \in Requests, ScimFillGroup(q) PROVE PermissionInv'
  BY <1>28 DEF ScimFillGroup, Answers, GoesOn, Idle
<1>29. ASSUME NEW q \in Requests, NEW u \in Users, SignIn(q, u) PROVE PermissionInv'
  BY <1>29 DEF SignIn, Arrives, Idle
<1>30. ASSUME NEW q \in Requests, BindDefault(q) PROVE PermissionInv'
  BY <1>30 DEF BindDefault, Answers, GoesOn, Idle
<1>31. ASSUME NEW l \in Limits, SetLimit(l) PROVE PermissionInv'
  BY <1>31 DEF SetLimit
<1>32. ASSUME NEW a \in AppRoles, SetActive(a) PROVE PermissionInv'
  BY <1>32 DEF SetActive
<1>33. ASSUME UNCHANGED vars PROVE PermissionInv'
  BY <1>33 DEF vars
<1>34. ASSUME NEW q \in Requests, TeamRoutes(q) PROVE PermissionInv'
  BY <1>1, <1>2, <1>3, <1>4, <1>5, <1>6, <1>7, <1>8, <1>9, <1>10, <1>11, <1>12, <1>13,
     <1>34 DEF TeamRoutes
<1>35. ASSUME NEW q \in Requests, RoleRoutes(q) PROVE PermissionInv'
  BY <1>14, <1>15, <1>16, <1>17, <1>18, <1>19, <1>20, <1>35 DEF RoleRoutes
<1>36. ASSUME ScimRoutes PROVE PermissionInv'
  BY <1>21, <1>22, <1>23, <1>24, <1>25, <1>26, <1>27, <1>28, <1>36 DEF ScimRoutes, Lists
<1>37. ASSUME SignIns PROVE PermissionInv'
  BY <1>29, <1>30, <1>37 DEF SignIns
<1> QED
  BY <1>31, <1>32, <1>33, <1>34, <1>35, <1>36, <1>37 DEF Next

-----------------------------------------------------------------------------
(* Every record has the fields and the values the code gives it.              *)
THEOREM TypeCorrect == Spec => [](TypeOK /\ RequestOK)
<1>1. Init => TypeOK /\ RequestOK
  <2>1. Init => RequestOK
    BY TeamAssumption DEF Init, RequestOK, Idle
  <2> QED
    BY <2>1, InitType
<1>2. TypeOK /\ RequestOK /\ [Next]_vars => (TypeOK /\ RequestOK)'
  BY TypeStep, RequestStep
<1> QED
  BY <1>1, <1>2, PTL DEF Spec

(* However many invitations are handled at once, members exceed the plan's    *)
(* seats by less than the number of requests (invite/route.ts).               *)
THEOREM SeatsAreBounded == Spec => []SeatsBounded
<1>1. Init => SeatInv
  <2> SUFFICES ASSUME Init PROVE SeatInv
    OBVIOUS
  <2>1. Seated \subseteq {Owner} /\ Counted = {}
    BY DEF Init, Seated, Members, Counted, Idle
  <2>2. Cardinality(Seated) \in Nat /\ Cardinality(Seated) <= 1 /\ Cardinality(Counted) = 0
    <3>1. IsFiniteSet({Owner}) /\ Cardinality({Owner}) = 1
      BY FS_Singleton
    <3>2. IsFiniteSet(Seated) /\ Cardinality(Seated) <= Cardinality({Owner})
      BY <2>1, <3>1, FS_Subset
    <3> QED
      BY <2>1, <3>1, <3>2, FS_EmptySet, FS_CardinalityType
  <2>3. Cardinality(Requests) \in Nat /\ Cardinality(Requests) >= 1
    BY TeamAssumption, FS_EmptySet, FS_CardinalityType
  <2>4. peak \in Nat /\ peak >= 1
    BY TeamAssumption DEF Init
  <2> QED
    BY <2>2, <2>3, <2>4 DEF SeatInv
<1>2. TypeOK /\ TypeOK' /\ RequestOK /\ SeatInv /\ [Next]_vars => SeatInv'
  BY SeatStep, SeatsStay
<1>3. TypeOK /\ SeatInv => SeatsBounded
  <2> SUFFICES ASSUME TypeOK, SeatInv PROVE SeatsBounded
    OBVIOUS
  <2>1. walkIns \subseteq Users /\ IsFiniteSet(walkIns) /\ Cardinality(walkIns) \in Nat
    BY TeamAssumption, FS_Subset, FS_CardinalityType DEF TypeOK, MembersOK
  <2>2. Members \subseteq Seated \cup walkIns
    BY DEF Seated
  <2>3. Seated \cap walkIns = {}
    BY DEF Seated
  <2>4. /\ IsFiniteSet(Seated \cup walkIns)
        /\ Cardinality(Seated \cup walkIns) = Cardinality(Seated) + Cardinality(walkIns)
    <3>1. /\ IsFiniteSet(Seated \cup walkIns)
          /\ Cardinality(Seated \cup walkIns) =
               Cardinality(Seated) + Cardinality(walkIns) - Cardinality(Seated \cap walkIns)
      BY <2>1, SeatSets, FS_Union
    <3> QED
      BY <2>1, <2>3, <3>1, SeatSets, FS_EmptySet
  <2>5. Cardinality(Members) <= Cardinality(Seated) + Cardinality(walkIns)
    BY <2>2, <2>4, FS_Subset
  <2>6. peak \in Nat
    BY TeamAssumption DEF TypeOK, RequestsOK
  <2> QED
    BY <2>1, <2>5, <2>6, SeatSets DEF SeatInv, SeatsBounded
<1> QED
  BY <1>1, <1>2, <1>3, TypeCorrect, PTL DEF Spec

(* Whoever changes a member's role in whatever order, the member has the role *)
(* of the last request that did (members/[userId]/role/route.ts).             *)
THEOREM RoleIsAsGiven == Spec => []RoleHolds
<1>1. Init => RoleInv
  BY TeamAssumption DEF Init, RoleInv, RoleHolds, Idle, Roles
<1>2. TypeOK /\ RequestOK /\ RoleInv /\ [Next]_vars => RoleInv'
  BY RoleStep
<1>3. RoleInv => RoleHolds
  BY DEF RoleInv
<1> QED
  BY <1>1, <1>2, <1>3, TypeCorrect, PTL DEF Spec

(* A name of a role finds one row (roles/route.ts).                           *)
THEOREM NamesFindOneRole == Spec => []NamesUnique
<1>1. Init => NameInv
  BY TeamAssumption DEF Init, NameInv, NamesUnique, Named, Idle
<1>2. TypeOK /\ RequestOK /\ NameInv /\ [Next]_vars => NameInv'
  BY NameStep
<1>3. NameInv => NamesUnique
  BY DEF NameInv
<1> QED
  BY <1>1, <1>2, <1>3, TypeCorrect, PTL DEF Spec

(* A custom role's permissions are those of its last edit (roles/[id]/route). *)
THEOREM PermissionsAreAsked == Spec => []PermissionsAsAsked
<1>1. Init => PermissionInv
  BY DEF Init, PermissionInv, PermissionsAsAsked, Idle
<1>2. TypeOK /\ RequestOK /\ PermissionInv /\ [Next]_vars => PermissionInv'
  BY PermissionStep
<1>3. PermissionInv => PermissionsAsAsked
  BY DEF PermissionInv
<1> QED
  BY <1>1, <1>2, <1>3, TypeCorrect, PTL DEF Spec

(* Whoever changes roles in whatever order, a member has the role given last,  *)
(* and a custom role a name of its own and the permissions of its last edit   *)
(* (members/[userId]/role/route.ts, roles/route.ts, roles/[id]/route.ts).     *)
THEOREM RolesAreKept == Spec => []RolesHold
BY RoleIsAsGiven, NamesFindOneRole, PermissionsAreAsked, PTL DEF RolesHold

(***************************************************************************)
(* Webhooks                                                                *)
(***************************************************************************)

(* A job is run once for each try, and once more when a worker died.          *)
TriesCount ==
  \A d \in Deliveries :
    /\ delivery[d].tries <= Tries + stalls
    /\ delivery[d].step = "waiting" => delivery[d].tries < Tries + stalls

(* What the request of a page is about; the lists it waits for have only      *)
(* endpoints that were there.                                                 *)
CallsKnow ==
  /\ \A p \in HookPages, e \in Hooks : shows[p][e] # "none" => hook[e] # "none"
  /\ \A p \in HookPages, f \in Fetches, e \in Hooks : fetch[p][f].list[e] # "none" => hook[e] # "none"
  /\ \A p \in HookPages : call[p] # Quiet =>
       /\ call[p].of \in Hooks
       /\ <<call[p].op, call[p].status>> \in
            {<<"create", "ACTIVE">>, <<"patch", "ACTIVE">>, <<"patch", "PAUSED">>, <<"delete", "DELETED">>}
       /\ call[p].step \in {"find", "update", "log"}
       /\ call[p].op # "create" => hook[call[p].of] # "none"
       /\ call[p].op = "create" => call[p].step # "find"

(* A list that was read says of an endpoint that was not changed since what   *)
(* the row says.                                                              *)
ListsKnow ==
  \A p \in HookPages, f \in Fetches, e \in Hooks :
    fetch[p][f].step = "read" /\ e \notin fetch[p][f].stale => fetch[p][f].list[e] = Listed[e]

(* A request that has changed its endpoint answers with what the row says,    *)
(* and the page that does not show the endpoint knows itself behind.          *)
AnswerKnows ==
  \A p \in HookPages : call[p].step = "log" /\ call[p].of \notin behind[p] =>
    /\ hook[call[p].of] = call[p].status
    /\ call[p].op = "patch" => shows[p][call[p].of] # "none"

HookInv ==
  /\ HookTypeOK /\ TriesCount /\ CallsKnow /\ ListsKnow /\ AnswerKnows
  /\ PageShowsRow /\ RowTellsOutcome

-----------------------------------------------------------------------------
\* The numbers of attempts and of lost workers are naturals.
LEMMA TriesBound == Tries \in Nat \ {0} /\ MaxStalls \in Nat
BY HookAssumption

\* A delivery that is tried again has attempts left.
LEMMA RetriedKeeps ==
  ASSUME NEW r \in Delivery
  PROVE  /\ Retried(r) \in Delivery
         /\ Retried(r).tries = r.tries /\ (Retried(r).step = "waiting" => r.tries < Tries)
<1>1. r.tries \in Nat /\ Tries \in Nat
  BY TriesBound DEF Delivery
<1>2. CASE r.tries >= Tries
  <2>1. Retried(r) = [r EXCEPT !.step = "failed", !.good = FALSE]
    BY <1>2 DEF Retried
  <2> QED
    BY <2>1 DEF Delivery
<1>3. CASE ~(r.tries >= Tries)
  <2>1. Retried(r) = [r EXCEPT !.step = "waiting", !.good = FALSE]
    BY <1>3 DEF Retried
  <2>2. r.tries < Tries
    BY <1>1, <1>3
  <2> QED
    BY <2>1, <2>2 DEF Delivery
<1> QED
  BY <1>2, <1>3

\* An outcome that is recorded counts no attempt.
LEMMA RecordedKeeps ==
  ASSUME NEW r \in Delivery
  PROVE  /\ Recorded(r) \in Delivery
         /\ Recorded(r).tries = r.tries /\ Recorded(r).step = r.step
<1>1. (r.worked \/ r.good) \in BOOLEAN
  OBVIOUS
<1> QED
  BY <1>1 DEF Recorded, Delivery

(* What a step leaves of a delivery keeps its type and its count of tries.    *)
LEMMA DeliversType ==
  ASSUME HookTypeOK, NEW d \in Deliveries, NEW r \in Delivery, Delivers(d, r),
         stalls' \in 0..MaxStalls
  PROVE  HookTypeOK'
BY DEF HookTypeOK, Delivers

\* A delivery that moves within its attempts keeps them counted.
LEMMA DeliversCount ==
  ASSUME HookTypeOK, HookTypeOK', TriesCount, NEW d \in Deliveries, NEW r \in Delivery, Delivers(d, r),
         stalls <= stalls', r.tries <= Tries + stalls',
         r.step = "waiting" => r.tries < Tries + stalls'
  PROVE  TriesCount'
<1> SUFFICES ASSUME NEW o \in Deliveries
             PROVE  /\ delivery'[o].tries <= Tries + stalls'
                    /\ delivery'[o].step = "waiting" => delivery'[o].tries < Tries + stalls'
  BY DEF TriesCount
<1>1. CASE o = d
  BY <1>1 DEF Delivers, HookTypeOK
<1>2. CASE o # d
  <2>1. delivery'[o] = delivery[o] /\ delivery[o] \in Delivery
    BY <1>2 DEF Delivers, HookTypeOK
  <2>2. delivery[o].tries \in Nat /\ stalls \in Nat /\ stalls' \in Nat
    BY <2>1, TriesBound DEF HookTypeOK, Delivery
  <2> QED
    BY <2>1, <2>2, TriesBound DEF TriesCount
<1> QED
  BY <1>1, <1>2

(* Every step of a delivery replaces its record by one whose tries are        *)
(* counted.                                                                   *)
LEMMA DeliveryMoves ==
  ASSUME HookTypeOK, TriesCount, NEW d \in Deliveries,
         \/ FindActive(d) \/ LookUpFails(d) \/ PostTimesOut(d)
         \/ RecordAnswer(d) \/ RecordFails(d) \/ FinishJob(d) \/ WorkerDies(d)
         \/ \E good \in BOOLEAN : PostEvent(d, good)
         \/ \E e \in Hooks : QueueEvent(d, e) \/ SendTest(d, e)
  PROVE  /\ stalls' \in 0..MaxStalls /\ stalls <= stalls'
         /\ \E r \in Delivery :
              /\ Delivers(d, r) /\ r.tries <= Tries + stalls'
              /\ r.step = "waiting" => r.tries < Tries + stalls'
<1> DEFINE r == delivery[d]
           Tried(q) == /\ q.tries <= Tries + stalls'
                       /\ q.step = "waiting" => q.tries < Tries + stalls'
<1>1. /\ r \in Delivery /\ r.tries \in Nat
      /\ r.tries <= Tries + stalls /\ (r.step = "waiting" => r.tries < Tries + stalls)
  <2>1. r \in Delivery
    BY DEF HookTypeOK
  <2> QED
    BY <2>1 DEF TriesCount, Delivery
<1>2. stalls \in Nat /\ stalls <= MaxStalls /\ stalls' \in Nat /\ stalls' <= MaxStalls /\ stalls <= stalls'
  <2>1. stalls' = stalls \/ (stalls < MaxStalls /\ stalls' = stalls + 1)
    <3>1. CASE WorkerDies(d)
      BY <3>1 DEF WorkerDies
    <3>2. CASE ~WorkerDies(d)
      BY <3>2 DEF FindActive, LookUpFails, PostTimesOut, RecordAnswer, RecordFails, FinishJob,
         PostEvent, QueueEvent, SendTest
    <3> QED
      BY <3>1, <3>2
  <2>2. stalls \in Nat /\ MaxStalls \in Nat /\ stalls <= MaxStalls
    BY TriesBound DEF HookTypeOK
  <2>3. CASE stalls' = stalls
    BY <2>2, <2>3
  <2>4. CASE stalls < MaxStalls /\ stalls' = stalls + 1
    BY <2>2, <2>4
  <2> QED
    BY ZenonT(30), <2>1, <2>3, <2>4
<1> HIDE DEF r
<1>3. ASSUME FindActive(d) PROVE \E q \in Delivery : Delivers(d, q) /\ Tried(q)
  <2>1. r.step = "waiting" /\ r.tries + 1 <= Tries + stalls /\ r.tries + 1 \in 0..(Tries + MaxStalls)
    BY <1>1, <1>2, <1>3, TriesBound DEF FindActive, r
  <2>2. [r EXCEPT !.step = "post", !.tries = r.tries + 1] \in Delivery /\ [r EXCEPT !.step = "done"] \in Delivery
    BY <1>1, <2>1 DEF Delivery
  <2>3. Delivers(d, [r EXCEPT !.step = "post", !.tries = r.tries + 1]) \/ Delivers(d, [r EXCEPT !.step = "done"])
    BY <1>3 DEF FindActive, r
  <2>4. Tried([r EXCEPT !.step = "post", !.tries = r.tries + 1]) /\ Tried([r EXCEPT !.step = "done"])
    BY <1>1, <1>2, <2>1, TriesBound DEF Delivery
  <2> QED
    BY <2>2, <2>3, <2>4
<1>10. Retried([r EXCEPT !.mute = TRUE]) \in Delivery /\ Tried(Retried([r EXCEPT !.mute = TRUE]))
  <2> DEFINE q == [r EXCEPT !.mute = TRUE]
  <2>1. q \in Delivery /\ q.tries = r.tries
    BY <1>1 DEF Delivery
  <2> HIDE DEF q
  <2>2. /\ Retried(q) \in Delivery /\ Retried(q).tries = r.tries
        /\ Retried(q).step = "waiting" => r.tries < Tries
    BY <2>1, RetriedKeeps
  <2>3. Tried(Retried(q))
    BY <1>1, <1>2, <2>2, TriesBound
  <2> QED
    BY <2>2, <2>3 DEF q
<1>11. ASSUME LookUpFails(d) PROVE \E q \in Delivery : Delivers(d, q) /\ Tried(q)
  <2> DEFINE t == [r EXCEPT !.tries = r.tries + 1, !.mute = TRUE]
  <2>1. r.step = "waiting" /\ r.tries + 1 <= Tries + stalls /\ r.tries + 1 \in 0..(Tries + MaxStalls)
    BY <1>1, <1>2, <1>11, TriesBound DEF LookUpFails, r
  <2>2. t \in Delivery /\ t.tries = r.tries + 1
    BY <1>1, <2>1 DEF Delivery
  <2>3. Delivers(d, Retried(t))
    BY <1>11 DEF LookUpFails, r
  <2> HIDE DEF t
  <2>4. /\ Retried(t) \in Delivery /\ Retried(t).tries = r.tries + 1
        /\ Retried(t).step = "waiting" => r.tries + 1 < Tries
    BY <2>2, RetriedKeeps
  <2>5. Tried(Retried(t))
    BY <1>1, <1>2, <2>1, <2>4, TriesBound
  <2> QED
    BY <2>3, <2>4, <2>5
<1>12. ASSUME RecordFails(d) PROVE \E q \in Delivery : Delivers(d, q) /\ Tried(q)
  <2>1. CASE r.test
    <3>1. Delivers(d, [r EXCEPT !.step = "done", !.good = FALSE])
      BY <1>12, <2>1 DEF RecordFails, r
    <3>2. [r EXCEPT !.step = "done", !.good = FALSE] \in Delivery
      BY <1>1 DEF Delivery
    <3>3. Tried([r EXCEPT !.step = "done", !.good = FALSE])
      BY <1>1, <1>2, TriesBound DEF Delivery
    <3> QED
      BY <3>1, <3>2, <3>3
  <2>2. CASE ~r.test
    BY <1>10, <1>12, <2>2 DEF RecordFails, r
  <2> QED
    BY <2>1, <2>2
<1>4. ASSUME PostTimesOut(d) PROVE \E q \in Delivery : Delivers(d, q) /\ Tried(q)
  <2>1. CASE r.test
    <3>1. Delivers(d, [r EXCEPT !.step = "record", !.good = FALSE])
      BY <1>4, <2>1 DEF PostTimesOut, r
    <3>2. [r EXCEPT !.step = "record", !.good = FALSE] \in Delivery
      BY <1>1 DEF Delivery
    <3>3. Tried([r EXCEPT !.step = "record", !.good = FALSE])
      BY <1>1, <1>2, TriesBound DEF Delivery
    <3> QED
      BY <3>1, <3>2, <3>3
  <2>2. CASE ~r.test
    BY <1>4, <1>10, <2>2 DEF PostTimesOut, r
  <2> QED
    BY <2>1, <2>2
<1>5. ASSUME RecordAnswer(d) PROVE \E q \in Delivery : Delivers(d, q) /\ Tried(q)
  <2>1. Recorded(r) \in Delivery /\ Recorded(r).tries = r.tries
    BY <1>1, RecordedKeeps
  <2>2. PICK q \in {[Recorded(r) EXCEPT !.step = "done"], [Recorded(r) EXCEPT !.step = "finish"], Retried(Recorded(r))} :
          Delivers(d, q)
    BY <1>5 DEF RecordAnswer, r
  <2>3. q \in Delivery /\ q.tries = r.tries /\ (q.step = "waiting" => r.tries < Tries)
    <3>1. CASE q = Retried(Recorded(r))
      BY <2>1, <3>1, RetriedKeeps
    <3>2. CASE q # Retried(Recorded(r))
      BY <2>1, <2>2, <3>2 DEF Delivery
    <3> QED
      BY <3>1, <3>2
  <2>4. Tried(q)
    BY <1>1, <1>2, <2>3, TriesBound
  <2> QED
    BY <2>2, <2>3, <2>4
<1>6. ASSUME FinishJob(d) PROVE \E q \in Delivery : Delivers(d, q) /\ Tried(q)
  <2>1. Delivers(d, [r EXCEPT !.step = "done"])
    BY <1>6 DEF FinishJob, r
  <2>2. [r EXCEPT !.step = "done"] \in Delivery
    BY <1>1 DEF Delivery
  <2>3. Tried([r EXCEPT !.step = "done"])
    BY <1>1, <1>2, TriesBound DEF Delivery
  <2> QED
    BY <2>1, <2>2, <2>3
<1>7. ASSUME WorkerDies(d) PROVE \E q \in Delivery : Delivers(d, q) /\ Tried(q)
  <2>1. PICK q \in {[r EXCEPT !.step = "done", !.good = FALSE],
                    [r EXCEPT !.step = "waiting", !.good = FALSE, !.mute = TRUE, !.rerun = TRUE]} : Delivers(d, q)
    BY <1>7 DEF WorkerDies, r
  <2>2. q \in Delivery /\ q.tries = r.tries
    BY <1>1, <2>1 DEF Delivery
  <2>3. stalls' = stalls + 1
    BY <1>7 DEF WorkerDies
  <2>4. Tried(q)
    BY <1>1, <1>2, <2>2, <2>3, TriesBound
  <2> QED
    BY <2>1, <2>2, <2>4
<1>8. ASSUME NEW good \in BOOLEAN, PostEvent(d, good)
      PROVE \E q \in Delivery : Delivers(d, q) /\ Tried(q)
  <2> DEFINE q == [r EXCEPT !.step = "record", !.good = good, !.mute = FALSE]
  <2>1. Delivers(d, q)
    BY <1>8 DEF PostEvent, r
  <2>2. q \in Delivery /\ q.tries = r.tries /\ q.step # "waiting"
    BY <1>1 DEF Delivery
  <2> HIDE DEF q
  <2>3. Tried(q)
    BY <1>1, <1>2, <2>2, TriesBound
  <2> QED
    BY <2>1, <2>2, <2>3
<1>9. ASSUME NEW e \in Hooks, QueueEvent(d, e) \/ SendTest(d, e)
      PROVE  \E q \in Delivery : Delivers(d, q) /\ Tried(q)
  <2>1. PICK q \in {[Unsent EXCEPT !.of = e, !.step = "waiting", !.row = "PENDING"],
                    [Unsent EXCEPT !.of = e, !.step = "post", !.test = TRUE]} : Delivers(d, q)
    BY <1>9 DEF QueueEvent, SendTest
  <2>2. q \in Delivery /\ q.tries = 0
    <3>1. Unsent \in Delivery /\ Unsent.tries = 0
      BY TriesBound DEF Unsent, Delivery
    <3> QED
      BY ZenonT(30), <2>1, <3>1 DEF Delivery
  <2>3. Tried(q)
    BY <1>2, <2>2, TriesBound
  <2> QED
    BY <2>1, <2>2, <2>3
<1> QED
  BY <1>2, <1>3, <1>4, <1>5, <1>6, <1>7, <1>8, <1>9, <1>11, <1>12

\* A list that was not asked for is empty.
LEMMA EmptyFetch == NoFetch \in Fetch /\ NoFetch.list \in HookLists
BY DEF NoFetch, Fetch, HookLists

\* Every step of the webhooks keeps the types.
LEMMA HookTypeStep ==
  ASSUME HookTypeOK, TriesCount, CallsKnow,
         HookNext \/ UNCHANGED hookVars
  PROVE  HookTypeOK'
<1>1. ASSUME NEW p \in HookPages, NEW f \in Fetches, OpenPage(p, f) PROVE HookTypeOK'
  BY <1>1, EmptyFetch DEF OpenPage, HookTypeOK, Fetch
<1>2. ASSUME NEW p \in HookPages, NEW f \in Fetches, ListHooks(p, f) PROVE HookTypeOK'
  BY <1>2, EmptyFetch DEF ListHooks, Listed, HookTypeOK, Fetch, HookLists
<1>3. ASSUME NEW p \in HookPages, NEW f \in Fetches, ShowList(p, f) PROVE HookTypeOK'
  BY <1>3, EmptyFetch DEF ShowList, HookTypeOK, Fetch
<1>4. ASSUME NEW p \in HookPages, NEW f \in Fetches, FetchFails(p, f) PROVE HookTypeOK'
  BY <1>4, EmptyFetch DEF FetchFails, HookTypeOK
<1>5. ASSUME NEW p \in HookPages, NEW f \in Fetches, AnswerCreated(p, f) PROVE HookTypeOK'
  <2>1. [NoFetch EXCEPT !.step = "asked"] \in Fetch
    BY EmptyFetch DEF Fetch
  <2>2. fetch' \in [HookPages -> [Fetches -> Fetch]]
    BY <1>5, <2>1 DEF AnswerCreated, Asked, HookTypeOK
  <2>3. Quiet \in HookCall /\ call[p].of \in Hooks
    BY <1>5 DEF AnswerCreated, Quiet, HookCall, CallsKnow
  <2> QED
    BY <1>5, <2>2, <2>3 DEF AnswerCreated, HookTypeOK
<1>6. ASSUME NEW p \in HookPages, ResolveEndpoint(p) PROVE HookTypeOK'
  <2>1. Quiet \in HookCall /\ [call[p] EXCEPT !.step = "update"] \in HookCall
    BY DEF Quiet, HookTypeOK, HookCall
  <2> QED
    BY <1>6, <2>1 DEF ResolveEndpoint, HookTypeOK
<1>7. ASSUME NEW p \in HookPages, UpdateHook(p) PROVE HookTypeOK'
  <2>1. call[p].of \in Hooks /\ call[p].status \in {"ACTIVE", "PAUSED", "DELETED"}
    BY <1>7 DEF UpdateHook, Quiet, CallsKnow
  <2>2. [call[p] EXCEPT !.step = "log"] \in HookCall
    BY DEF HookTypeOK, HookCall
  <2>3. fetch' \in [HookPages -> [Fetches -> Fetch]]
    <3> SUFFICES ASSUME NEW o \in HookPages, NEW f \in Fetches
                 PROVE  /\ fetch[o][f] \in Fetch
                        /\ [fetch[o][f] EXCEPT !.stale = @ \cup {call[p].of}] \in Fetch
      BY <1>7 DEF UpdateHook
    <3>1. fetch[o][f] \in Fetch
      BY DEF HookTypeOK
    <3> QED
      BY <2>1, <3>1 DEF Fetch
  <2>4. behind' \in [HookPages -> SUBSET Hooks]
    BY <1>7, <2>1 DEF UpdateHook, HookTypeOK
  <2> QED
    BY <1>7, <2>1, <2>2, <2>3, <2>4 DEF UpdateHook, HookTypeOK
<1>8. ASSUME NEW p \in HookPages, AnswerPage(p) PROVE HookTypeOK'
  BY <1>8 DEF AnswerPage, RouteAnswers, Quiet, HookTypeOK, HookCall, HookLists, CallsKnow
<1>9. ASSUME NEW p \in HookPages, CallBreaks(p) PROVE HookTypeOK'
  BY <1>9 DEF CallBreaks, Quiet, HookTypeOK, HookCall, CallsKnow
<1>10. ASSUME NEW p \in HookPages, NEW e \in Hooks, AddHook(p, e) PROVE HookTypeOK'
  BY <1>10 DEF AddHook, Calls, HookTypeOK, HookCall
<1>11. ASSUME NEW p \in HookPages, NEW e \in Hooks, ToggleStatus(p, e) PROVE HookTypeOK'
  BY <1>11 DEF ToggleStatus, Calls, HookTypeOK, HookCall
<1>12. ASSUME NEW p \in HookPages, NEW e \in Hooks, DeleteHook(p, e) PROVE HookTypeOK'
  BY <1>12 DEF DeleteHook, Calls, HookTypeOK, HookCall
<1>13. ASSUME NEW d \in Deliveries, FindActive(d) PROVE HookTypeOK'
  BY <1>13, DeliveryMoves, DeliversType
<1>14. ASSUME NEW d \in Deliveries, LookUpFails(d) PROVE HookTypeOK'
  BY <1>14, DeliveryMoves, DeliversType
<1>15. ASSUME NEW d \in Deliveries, PostTimesOut(d) PROVE HookTypeOK'
  BY <1>15, DeliveryMoves, DeliversType
<1>16. ASSUME NEW d \in Deliveries, RecordAnswer(d) PROVE HookTypeOK'
  BY <1>16, DeliveryMoves, DeliversType
<1>17. ASSUME NEW d \in Deliveries, RecordFails(d) PROVE HookTypeOK'
  BY <1>17, DeliveryMoves, DeliversType
<1>18. ASSUME NEW d \in Deliveries, FinishJob(d) PROVE HookTypeOK'
  BY <1>18, DeliveryMoves, DeliversType
<1>19. ASSUME NEW d \in Deliveries, WorkerDies(d) PROVE HookTypeOK'
  BY <1>19, DeliveryMoves, DeliversType
<1>20. ASSUME NEW d \in Deliveries, NEW good \in BOOLEAN, PostEvent(d, good) PROVE HookTypeOK'
  BY <1>20, DeliveryMoves, DeliversType
<1>21. ASSUME NEW d \in Deliveries, NEW e \in Hooks, QueueEvent(d, e) PROVE HookTypeOK'
  BY <1>21, DeliveryMoves, DeliversType
<1>22. ASSUME NEW d \in Deliveries, NEW e \in Hooks, SendTest(d, e) PROVE HookTypeOK'
  BY <1>22, DeliveryMoves, DeliversType
<1>23. ASSUME UNCHANGED hookVars PROVE HookTypeOK'
  BY <1>23 DEF hookVars, HookTypeOK
<1> QED
  BY <1>1, <1>2, <1>3, <1>4, <1>5, <1>6, <1>7, <1>8, <1>9, <1>10, <1>11, <1>12, <1>13, <1>14,
     <1>15, <1>16, <1>17, <1>18, <1>19, <1>20, <1>21, <1>22, <1>23 DEF HookNext

\* Every attempt is one of the job's, or one after a lost worker.
LEMMA TriesCountStep ==
  ASSUME HookTypeOK, HookTypeOK', TriesCount,
         HookNext \/ UNCHANGED hookVars
  PROVE  TriesCount'
<1>1. ASSUME NEW p \in HookPages, NEW f \in Fetches, OpenPage(p, f) PROVE TriesCount'
  BY <1>1 DEF OpenPage, TriesCount
<1>2. ASSUME NEW p \in HookPages, NEW f \in Fetches, ListHooks(p, f) PROVE TriesCount'
  BY <1>2 DEF ListHooks, TriesCount
<1>3. ASSUME NEW p \in HookPages, NEW f \in Fetches, ShowList(p, f) PROVE TriesCount'
  BY <1>3 DEF ShowList, TriesCount
<1>4. ASSUME NEW p \in HookPages, NEW f \in Fetches, FetchFails(p, f) PROVE TriesCount'
  BY <1>4 DEF FetchFails, TriesCount
<1>5. ASSUME NEW p \in HookPages, NEW f \in Fetches, AnswerCreated(p, f) PROVE TriesCount'
  BY <1>5 DEF AnswerCreated, TriesCount
<1>6. ASSUME NEW p \in HookPages, ResolveEndpoint(p) PROVE TriesCount'
  BY <1>6 DEF ResolveEndpoint, TriesCount
<1>7. ASSUME NEW p \in HookPages, UpdateHook(p) PROVE TriesCount'
  BY <1>7 DEF UpdateHook, TriesCount
<1>8. ASSUME NEW p \in HookPages, AnswerPage(p) PROVE TriesCount'
  BY <1>8 DEF AnswerPage, RouteAnswers, TriesCount
<1>9. ASSUME NEW p \in HookPages, CallBreaks(p) PROVE TriesCount'
  BY <1>9 DEF CallBreaks, TriesCount
<1>10. ASSUME NEW p \in HookPages, NEW e \in Hooks, AddHook(p, e) PROVE TriesCount'
  BY <1>10 DEF AddHook, Calls, TriesCount
<1>11. ASSUME NEW p \in HookPages, NEW e \in Hooks, ToggleStatus(p, e) PROVE TriesCount'
  BY <1>11 DEF ToggleStatus, Calls, TriesCount
<1>12. ASSUME NEW p \in HookPages, NEW e \in Hooks, DeleteHook(p, e) PROVE TriesCount'
  BY <1>12 DEF DeleteHook, Calls, TriesCount
<1>13. ASSUME NEW d \in Deliveries, FindActive(d) PROVE TriesCount'
  BY <1>13, DeliveryMoves, DeliversCount
<1>14. ASSUME NEW d \in Deliveries, LookUpFails(d) PROVE TriesCount'
  BY <1>14, DeliveryMoves, DeliversCount
<1>15. ASSUME NEW d \in Deliveries, PostTimesOut(d) PROVE TriesCount'
  BY <1>15, DeliveryMoves, DeliversCount
<1>16. ASSUME NEW d \in Deliveries, RecordAnswer(d) PROVE TriesCount'
  BY <1>16, DeliveryMoves, DeliversCount
<1>17. ASSUME NEW d \in Deliveries, RecordFails(d) PROVE TriesCount'
  BY <1>17, DeliveryMoves, DeliversCount
<1>18. ASSUME NEW d \in Deliveries, FinishJob(d) PROVE TriesCount'
  BY <1>18, DeliveryMoves, DeliversCount
<1>19. ASSUME NEW d \in Deliveries, WorkerDies(d) PROVE TriesCount'
  BY <1>19, DeliveryMoves, DeliversCount
<1>20. ASSUME NEW d \in Deliveries, NEW good \in BOOLEAN, PostEvent(d, good) PROVE TriesCount'
  BY <1>20, DeliveryMoves, DeliversCount
<1>21. ASSUME NEW d \in Deliveries, NEW e \in Hooks, QueueEvent(d, e) PROVE TriesCount'
  BY <1>21, DeliveryMoves, DeliversCount
<1>22. ASSUME NEW d \in Deliveries, NEW e \in Hooks, SendTest(d, e) PROVE TriesCount'
  BY <1>22, DeliveryMoves, DeliversCount
<1>23. ASSUME UNCHANGED hookVars PROVE TriesCount'
  BY <1>23 DEF hookVars, TriesCount
<1> QED
  BY <1>1, <1>2, <1>3, <1>4, <1>5, <1>6, <1>7, <1>8, <1>9, <1>10, <1>11, <1>12, <1>13, <1>14,
     <1>15, <1>16, <1>17, <1>18, <1>19, <1>20, <1>21, <1>22, <1>23 DEF HookNext

\* The request of a page stays about an endpoint that was there.
LEMMA CallsKnowStep ==
  ASSUME HookTypeOK, HookTypeOK', CallsKnow,
         HookNext \/ UNCHANGED hookVars
  PROVE  CallsKnow'
<1>1. ASSUME NEW p \in HookPages, NEW f \in Fetches, OpenPage(p, f) PROVE CallsKnow'
  BY <1>1 DEF OpenPage, NoFetch, HookTypeOK, CallsKnow
<1>2. ASSUME NEW p \in HookPages, NEW f \in Fetches, ListHooks(p, f) PROVE CallsKnow'
  BY <1>2 DEF ListHooks, Listed, HookTypeOK, CallsKnow
<1>3. ASSUME NEW p \in HookPages, NEW f \in Fetches, ShowList(p, f) PROVE CallsKnow'
  BY <1>3 DEF ShowList, NoFetch, HookTypeOK, CallsKnow
<1>4. ASSUME NEW p \in HookPages, NEW f \in Fetches, FetchFails(p, f) PROVE CallsKnow'
  BY <1>4 DEF FetchFails, NoFetch, HookTypeOK, CallsKnow
<1>5. ASSUME NEW p \in HookPages, NEW f \in Fetches, AnswerCreated(p, f) PROVE CallsKnow'
  BY <1>5 DEF AnswerCreated, Asked, NoFetch, Quiet, HookTypeOK, CallsKnow
<1>6. ASSUME NEW p \in HookPages, ResolveEndpoint(p) PROVE CallsKnow'
  BY <1>6 DEF ResolveEndpoint, Quiet, CallsKnow
<1>7. ASSUME NEW p \in HookPages, UpdateHook(p) PROVE CallsKnow'
  BY <1>7 DEF UpdateHook, Quiet, HookTypeOK, Fetch, CallsKnow
<1>8. ASSUME NEW p \in HookPages, AnswerPage(p) PROVE CallsKnow'
  BY <1>8 DEF AnswerPage, RouteAnswers, Quiet, HookTypeOK, CallsKnow
<1>9. ASSUME NEW p \in HookPages, CallBreaks(p) PROVE CallsKnow'
  BY <1>9 DEF CallBreaks, CallsKnow
<1>10. ASSUME NEW p \in HookPages, NEW e \in Hooks, AddHook(p, e) PROVE CallsKnow'
  BY <1>10 DEF AddHook, Calls, CallsKnow
<1>11. ASSUME NEW p \in HookPages, NEW e \in Hooks, ToggleStatus(p, e) PROVE CallsKnow'
  BY <1>11 DEF ToggleStatus, Calls, CallsKnow
<1>12. ASSUME NEW p \in HookPages, NEW e \in Hooks, DeleteHook(p, e) PROVE CallsKnow'
  BY <1>12 DEF DeleteHook, Calls, CallsKnow
<1>13. ASSUME NEW d \in Deliveries, FindActive(d) PROVE CallsKnow'
  BY <1>13 DEF FindActive, Delivers, CallsKnow
<1>14. ASSUME NEW d \in Deliveries, LookUpFails(d) PROVE CallsKnow'
  BY <1>14 DEF LookUpFails, Delivers, CallsKnow
<1>15. ASSUME NEW d \in Deliveries, PostTimesOut(d) PROVE CallsKnow'
  BY <1>15 DEF PostTimesOut, Delivers, CallsKnow
<1>16. ASSUME NEW d \in Deliveries, RecordAnswer(d) PROVE CallsKnow'
  BY <1>16 DEF RecordAnswer, Delivers, CallsKnow
<1>17. ASSUME NEW d \in Deliveries, RecordFails(d) PROVE CallsKnow'
  BY <1>17 DEF RecordFails, Delivers, CallsKnow
<1>18. ASSUME NEW d \in Deliveries, FinishJob(d) PROVE CallsKnow'
  BY <1>18 DEF FinishJob, Delivers, CallsKnow
<1>19. ASSUME NEW d \in Deliveries, WorkerDies(d) PROVE CallsKnow'
  BY <1>19 DEF WorkerDies, Delivers, CallsKnow
<1>20. ASSUME NEW d \in Deliveries, NEW good \in BOOLEAN, PostEvent(d, good) PROVE CallsKnow'
  BY <1>20 DEF PostEvent, Delivers, CallsKnow
<1>21. ASSUME NEW d \in Deliveries, NEW e \in Hooks, QueueEvent(d, e) PROVE CallsKnow'
  BY <1>21 DEF QueueEvent, Delivers, CallsKnow
<1>22. ASSUME NEW d \in Deliveries, NEW e \in Hooks, SendTest(d, e) PROVE CallsKnow'
  BY <1>22 DEF SendTest, Delivers, CallsKnow
<1>23. ASSUME UNCHANGED hookVars PROVE CallsKnow'
  BY <1>23 DEF hookVars, CallsKnow
<1> QED
  BY <1>1, <1>2, <1>3, <1>4, <1>5, <1>6, <1>7, <1>8, <1>9, <1>10, <1>11, <1>12, <1>13, <1>14,
     <1>15, <1>16, <1>17, <1>18, <1>19, <1>20, <1>21, <1>22, <1>23 DEF HookNext

\* A list that was read stays right about what was not changed since.
LEMMA ListsKnowStep ==
  ASSUME HookTypeOK, HookTypeOK', CallsKnow, ListsKnow,
         HookNext \/ UNCHANGED hookVars
  PROVE  ListsKnow'
<1>1. ASSUME NEW p \in HookPages, NEW f \in Fetches, OpenPage(p, f) PROVE ListsKnow'
  BY <1>1 DEF OpenPage, NoFetch, Listed, HookTypeOK, ListsKnow
<1>2. ASSUME NEW p \in HookPages, NEW f \in Fetches, ListHooks(p, f) PROVE ListsKnow'
  BY <1>2 DEF ListHooks, Listed, HookTypeOK, ListsKnow
<1>3. ASSUME NEW p \in HookPages, NEW f \in Fetches, ShowList(p, f) PROVE ListsKnow'
  BY <1>3 DEF ShowList, NoFetch, Listed, HookTypeOK, ListsKnow
<1>4. ASSUME NEW p \in HookPages, NEW f \in Fetches, FetchFails(p, f) PROVE ListsKnow'
  BY <1>4 DEF FetchFails, NoFetch, Listed, HookTypeOK, ListsKnow
<1>5. ASSUME NEW p \in HookPages, NEW f \in Fetches, AnswerCreated(p, f) PROVE ListsKnow'
  BY <1>5 DEF AnswerCreated, Asked, NoFetch, Listed, HookTypeOK, ListsKnow
<1>6. ASSUME NEW p \in HookPages, ResolveEndpoint(p) PROVE ListsKnow'
  BY <1>6 DEF ResolveEndpoint, Listed, ListsKnow
<1>7. ASSUME NEW p \in HookPages, UpdateHook(p) PROVE ListsKnow'
  BY <1>7 DEF UpdateHook, Quiet, Listed, HookTypeOK, Fetch, CallsKnow, ListsKnow
<1>8. ASSUME NEW p \in HookPages, AnswerPage(p) PROVE ListsKnow'
  BY <1>8 DEF AnswerPage, RouteAnswers, Listed, ListsKnow
<1>9. ASSUME NEW p \in HookPages, CallBreaks(p) PROVE ListsKnow'
  BY <1>9 DEF CallBreaks, Listed, ListsKnow
<1>10. ASSUME NEW p \in HookPages, NEW e \in Hooks, AddHook(p, e) PROVE ListsKnow'
  BY <1>10 DEF AddHook, Calls, Listed, ListsKnow
<1>11. ASSUME NEW p \in HookPages, NEW e \in Hooks, ToggleStatus(p, e) PROVE ListsKnow'
  BY <1>11 DEF ToggleStatus, Calls, Listed, ListsKnow
<1>12. ASSUME NEW p \in HookPages, NEW e \in Hooks, DeleteHook(p, e) PROVE ListsKnow'
  BY <1>12 DEF DeleteHook, Calls, Listed, ListsKnow
<1>13. ASSUME NEW d \in Deliveries, FindActive(d) PROVE ListsKnow'
  BY <1>13 DEF FindActive, Delivers, Listed, ListsKnow
<1>14. ASSUME NEW d \in Deliveries, LookUpFails(d) PROVE ListsKnow'
  BY <1>14 DEF LookUpFails, Delivers, Listed, ListsKnow
<1>15. ASSUME NEW d \in Deliveries, PostTimesOut(d) PROVE ListsKnow'
  BY <1>15 DEF PostTimesOut, Delivers, Listed, ListsKnow
<1>16. ASSUME NEW d \in Deliveries, RecordAnswer(d) PROVE ListsKnow'
  BY <1>16 DEF RecordAnswer, Delivers, Listed, ListsKnow
<1>17. ASSUME NEW d \in Deliveries, RecordFails(d) PROVE ListsKnow'
  BY <1>17 DEF RecordFails, Delivers, Listed, ListsKnow
<1>18. ASSUME NEW d \in Deliveries, FinishJob(d) PROVE ListsKnow'
  BY <1>18 DEF FinishJob, Delivers, Listed, ListsKnow
<1>19. ASSUME NEW d \in Deliveries, WorkerDies(d) PROVE ListsKnow'
  BY <1>19 DEF WorkerDies, Delivers, Listed, ListsKnow
<1>20. ASSUME NEW d \in Deliveries, NEW good \in BOOLEAN, PostEvent(d, good) PROVE ListsKnow'
  BY <1>20 DEF PostEvent, Delivers, Listed, ListsKnow
<1>21. ASSUME NEW d \in Deliveries, NEW e \in Hooks, QueueEvent(d, e) PROVE ListsKnow'
  BY <1>21 DEF QueueEvent, Delivers, Listed, ListsKnow
<1>22. ASSUME NEW d \in Deliveries, NEW e \in Hooks, SendTest(d, e) PROVE ListsKnow'
  BY <1>22 DEF SendTest, Delivers, Listed, ListsKnow
<1>23. ASSUME UNCHANGED hookVars PROVE ListsKnow'
  BY <1>23 DEF hookVars, Listed, ListsKnow
<1> QED
  BY <1>1, <1>2, <1>3, <1>4, <1>5, <1>6, <1>7, <1>8, <1>9, <1>10, <1>11, <1>12, <1>13, <1>14,
     <1>15, <1>16, <1>17, <1>18, <1>19, <1>20, <1>21, <1>22, <1>23 DEF HookNext

\* The answer to a page is the row, unless another request wrote since.
LEMMA AnswerKnowsStep ==
  ASSUME HookTypeOK, HookTypeOK', CallsKnow, CallsKnow', ListsKnow, AnswerKnows,
         HookNext \/ UNCHANGED hookVars
  PROVE  AnswerKnows'
<1>1. ASSUME NEW p \in HookPages, NEW f \in Fetches, OpenPage(p, f) PROVE AnswerKnows'
  BY <1>1 DEF OpenPage, Quiet, HookTypeOK, AnswerKnows
<1>2. ASSUME NEW p \in HookPages, NEW f \in Fetches, ListHooks(p, f) PROVE AnswerKnows'
  BY <1>2 DEF ListHooks, AnswerKnows
<1>3. ASSUME NEW p \in HookPages, NEW f \in Fetches, ShowList(p, f) PROVE AnswerKnows'
  <2> SUFFICES ASSUME NEW o \in HookPages, call'[o].step = "log", call'[o].of \notin behind'[o]
               PROVE  /\ hook'[call'[o].of] = call'[o].status
                      /\ call'[o].op = "patch" => shows'[o][call'[o].of] # "none"
    BY DEF AnswerKnows
  <2>1. call' = call /\ hook' = hook
    BY <1>3 DEF ShowList
  <2>2. CASE o # p
    BY <1>3, <2>1, <2>2 DEF ShowList, HookTypeOK, AnswerKnows
  <2>3. CASE o = p
    <3> DEFINE e == call[p].of
    <3>1. e \in Hooks
      BY <2>1, <2>3 DEF Quiet, CallsKnow
    <3>2. e \notin behind[p] /\ e \notin fetch[p][f].stale /\ shows'[p] = fetch[p][f].list
      BY <1>3, <2>1, <2>3, <3>1 DEF ShowList, HookTypeOK
    <3>3. hook[e] = call[p].status
      BY <2>1, <2>3, <3>2 DEF AnswerKnows
    <3>4. shows'[p][e] = Listed[e]
      BY <1>3, <3>1, <3>2 DEF ShowList, ListsKnow
    <3>5. call[p].op = "patch" => call[p].status \in {"ACTIVE", "PAUSED"}
      BY <2>1, <2>3 DEF Quiet, CallsKnow
    <3> QED
      BY <2>1, <2>3, <3>1, <3>3, <3>4, <3>5 DEF Listed
  <2> QED
    BY <2>2, <2>3
<1>4. ASSUME NEW p \in HookPages, NEW f \in Fetches, FetchFails(p, f) PROVE AnswerKnows'
  BY <1>4 DEF FetchFails, AnswerKnows
<1>5. ASSUME NEW p \in HookPages, NEW f \in Fetches, AnswerCreated(p, f) PROVE AnswerKnows'
  BY <1>5 DEF AnswerCreated, Quiet, HookTypeOK, AnswerKnows
<1>6. ASSUME NEW p \in HookPages, ResolveEndpoint(p) PROVE AnswerKnows'
  BY <1>6 DEF ResolveEndpoint, Quiet, AnswerKnows
<1>7. ASSUME NEW p \in HookPages, UpdateHook(p) PROVE AnswerKnows'
  BY <1>7 DEF UpdateHook, HookTypeOK, CallsKnow, AnswerKnows
<1>8. ASSUME NEW p \in HookPages, AnswerPage(p) PROVE AnswerKnows'
  BY <1>8 DEF AnswerPage, RouteAnswers, Quiet, HookTypeOK, AnswerKnows
<1>9. ASSUME NEW p \in HookPages, CallBreaks(p) PROVE AnswerKnows'
  BY <1>9 DEF CallBreaks, Quiet, HookTypeOK, AnswerKnows
<1>10. ASSUME NEW p \in HookPages, NEW e \in Hooks, AddHook(p, e) PROVE AnswerKnows'
  BY <1>10 DEF AddHook, Calls, AnswerKnows
<1>11. ASSUME NEW p \in HookPages, NEW e \in Hooks, ToggleStatus(p, e) PROVE AnswerKnows'
  BY <1>11 DEF ToggleStatus, Calls, AnswerKnows
<1>12. ASSUME NEW p \in HookPages, NEW e \in Hooks, DeleteHook(p, e) PROVE AnswerKnows'
  BY <1>12 DEF DeleteHook, Calls, AnswerKnows
<1>13. ASSUME NEW d \in Deliveries, FindActive(d) PROVE AnswerKnows'
  BY <1>13 DEF FindActive, Delivers, AnswerKnows
<1>14. ASSUME NEW d \in Deliveries, LookUpFails(d) PROVE AnswerKnows'
  BY <1>14 DEF LookUpFails, Delivers, AnswerKnows
<1>15. ASSUME NEW d \in Deliveries, PostTimesOut(d) PROVE AnswerKnows'
  BY <1>15 DEF PostTimesOut, Delivers, AnswerKnows
<1>16. ASSUME NEW d \in Deliveries, RecordAnswer(d) PROVE AnswerKnows'
  BY <1>16 DEF RecordAnswer, Delivers, AnswerKnows
<1>17. ASSUME NEW d \in Deliveries, RecordFails(d) PROVE AnswerKnows'
  BY <1>17 DEF RecordFails, Delivers, AnswerKnows
<1>18. ASSUME NEW d \in Deliveries, FinishJob(d) PROVE AnswerKnows'
  BY <1>18 DEF FinishJob, Delivers, AnswerKnows
<1>19. ASSUME NEW d \in Deliveries, WorkerDies(d) PROVE AnswerKnows'
  BY <1>19 DEF WorkerDies, Delivers, AnswerKnows
<1>20. ASSUME NEW d \in Deliveries, NEW good \in BOOLEAN, PostEvent(d, good) PROVE AnswerKnows'
  BY <1>20 DEF PostEvent, Delivers, AnswerKnows
<1>21. ASSUME NEW d \in Deliveries, NEW e \in Hooks, QueueEvent(d, e) PROVE AnswerKnows'
  BY <1>21 DEF QueueEvent, Delivers, AnswerKnows
<1>22. ASSUME NEW d \in Deliveries, NEW e \in Hooks, SendTest(d, e) PROVE AnswerKnows'
  BY <1>22 DEF SendTest, Delivers, AnswerKnows
<1>23. ASSUME UNCHANGED hookVars PROVE AnswerKnows'
  BY <1>23 DEF hookVars, AnswerKnows
<1> QED
  BY <1>1, <1>2, <1>3, <1>4, <1>5, <1>6, <1>7, <1>8, <1>9, <1>10, <1>11, <1>12, <1>13, <1>14,
     <1>15, <1>16, <1>17, <1>18, <1>19, <1>20, <1>21, <1>22, <1>23 DEF HookNext

\* So a page that is not behind shows the row.
LEMMA PageShowsRowStep ==
  ASSUME HookTypeOK, HookTypeOK', CallsKnow, CallsKnow', ListsKnow, AnswerKnows,
         PageShowsRow,
         HookNext \/ UNCHANGED hookVars
  PROVE  PageShowsRow'
<1>1. ASSUME NEW p \in HookPages, NEW f \in Fetches, OpenPage(p, f) PROVE PageShowsRow'
  BY <1>1 DEF OpenPage, Quiet, Listed, HookTypeOK, PageShowsRow
<1>2. ASSUME NEW p \in HookPages, NEW f \in Fetches, ListHooks(p, f) PROVE PageShowsRow'
  BY <1>2 DEF ListHooks, Listed, PageShowsRow
<1>3. ASSUME NEW p \in HookPages, NEW f \in Fetches, ShowList(p, f) PROVE PageShowsRow'
  BY <1>3 DEF ShowList, Listed, HookTypeOK, ListsKnow, PageShowsRow
<1>4. ASSUME NEW p \in HookPages, NEW f \in Fetches, FetchFails(p, f) PROVE PageShowsRow'
  BY <1>4 DEF FetchFails, Listed, PageShowsRow
<1>5. ASSUME NEW p \in HookPages, NEW f \in Fetches, AnswerCreated(p, f) PROVE PageShowsRow'
  BY <1>5 DEF AnswerCreated, Quiet, Listed, HookTypeOK, PageShowsRow
<1>6. ASSUME NEW p \in HookPages, ResolveEndpoint(p) PROVE PageShowsRow'
  BY <1>6 DEF ResolveEndpoint, Listed, PageShowsRow
<1>7. ASSUME NEW p \in HookPages, UpdateHook(p) PROVE PageShowsRow'
  BY <1>7 DEF UpdateHook, Listed, HookTypeOK, PageShowsRow
<1>8. ASSUME NEW p \in HookPages, AnswerPage(p) PROVE PageShowsRow'
  <2> DEFINE c == call[p].of
  <2>1. /\ call[p].step = "log" /\ call[p].op # "create" /\ call' = [call EXCEPT ![p] = Quiet]
        /\ shows' = [shows EXCEPT ![p][c] = IF call[p].op = "delete" \/ @ = "none" THEN "none" ELSE call[p].status]
        /\ hook' = hook /\ behind' = behind /\ Listed' = Listed
    BY <1>8 DEF AnswerPage, RouteAnswers, Listed
  <2>2. c \in Hooks /\ <<call[p].op, call[p].status>> \in
          {<<"patch", "ACTIVE">>, <<"patch", "PAUSED">>, <<"delete", "DELETED">>}
    BY <2>1 DEF Quiet, CallsKnow
  <2> SUFFICES ASSUME NEW o \in HookPages, NEW e \in Hooks, e \notin behind[o],
                      ~(call'[o].step = "log" /\ call'[o].of = e)
               PROVE  shows'[o][e] = Listed[e]
    BY <2>1 DEF PageShowsRow
  <2>3. CASE o = p /\ e = c
    <3>1. hook[c] = call[p].status /\ (call[p].op = "patch" => shows[p][c] # "none")
      BY <2>1, <2>3 DEF AnswerKnows
    <3>2. shows'[p][c] = IF call[p].op = "delete" \/ shows[p][c] = "none" THEN "none" ELSE call[p].status
      BY <2>1, <2>2 DEF HookTypeOK, HookLists
    <3> QED
      BY <2>2, <2>3, <3>1, <3>2 DEF Listed
  <2>4. CASE ~(o = p /\ e = c)
    <3>1. shows'[o][e] = shows[o][e]
      BY <2>1, <2>4 DEF HookTypeOK, HookLists
    <3>2. ~(call[o].step = "log" /\ call[o].of = e)
      BY <2>1, <2>4 DEF HookTypeOK
    <3> QED
      BY <3>1, <3>2 DEF PageShowsRow
  <2> QED
    BY <2>3, <2>4
<1>9. ASSUME NEW p \in HookPages, CallBreaks(p) PROVE PageShowsRow'
  BY <1>9 DEF CallBreaks, Quiet, Listed, HookTypeOK, PageShowsRow
<1>10. ASSUME NEW p \in HookPages, NEW e \in Hooks, AddHook(p, e) PROVE PageShowsRow'
  BY <1>10 DEF AddHook, Calls, Quiet, Listed, PageShowsRow
<1>11. ASSUME NEW p \in HookPages, NEW e \in Hooks, ToggleStatus(p, e) PROVE PageShowsRow'
  BY <1>11 DEF ToggleStatus, Calls, Quiet, Listed, PageShowsRow
<1>12. ASSUME NEW p \in HookPages, NEW e \in Hooks, DeleteHook(p, e) PROVE PageShowsRow'
  BY <1>12 DEF DeleteHook, Calls, Quiet, Listed, PageShowsRow
<1>13. ASSUME NEW d \in Deliveries, FindActive(d) PROVE PageShowsRow'
  BY <1>13 DEF FindActive, Delivers, Listed, PageShowsRow
<1>14. ASSUME NEW d \in Deliveries, LookUpFails(d) PROVE PageShowsRow'
  BY <1>14 DEF LookUpFails, Delivers, Listed, PageShowsRow
<1>15. ASSUME NEW d \in Deliveries, PostTimesOut(d) PROVE PageShowsRow'
  BY <1>15 DEF PostTimesOut, Delivers, Listed, PageShowsRow
<1>16. ASSUME NEW d \in Deliveries, RecordAnswer(d) PROVE PageShowsRow'
  BY <1>16 DEF RecordAnswer, Delivers, Listed, PageShowsRow
<1>17. ASSUME NEW d \in Deliveries, RecordFails(d) PROVE PageShowsRow'
  BY <1>17 DEF RecordFails, Delivers, Listed, PageShowsRow
<1>18. ASSUME NEW d \in Deliveries, FinishJob(d) PROVE PageShowsRow'
  BY <1>18 DEF FinishJob, Delivers, Listed, PageShowsRow
<1>19. ASSUME NEW d \in Deliveries, WorkerDies(d) PROVE PageShowsRow'
  BY <1>19 DEF WorkerDies, Delivers, Listed, PageShowsRow
<1>20. ASSUME NEW d \in Deliveries, NEW good \in BOOLEAN, PostEvent(d, good) PROVE PageShowsRow'
  BY <1>20 DEF PostEvent, Delivers, Listed, PageShowsRow
<1>21. ASSUME NEW d \in Deliveries, NEW e \in Hooks, QueueEvent(d, e) PROVE PageShowsRow'
  BY <1>21 DEF QueueEvent, Delivers, Listed, PageShowsRow
<1>22. ASSUME NEW d \in Deliveries, NEW e \in Hooks, SendTest(d, e) PROVE PageShowsRow'
  BY <1>22 DEF SendTest, Delivers, Listed, PageShowsRow
<1>23. ASSUME UNCHANGED hookVars PROVE PageShowsRow'
  BY <1>23 DEF hookVars, Listed, PageShowsRow
<1> QED
  BY <1>1, <1>2, <1>3, <1>4, <1>5, <1>6, <1>7, <1>8, <1>9, <1>10, <1>11, <1>12, <1>13, <1>14,
     <1>15, <1>16, <1>17, <1>18, <1>19, <1>20, <1>21, <1>22, <1>23 DEF HookNext

\* A row that no later delivery wrote tells its own outcome.
LEMMA RowTellsOutcomeStep ==
  ASSUME HookTypeOK, HookTypeOK', RowTellsOutcome,
         HookNext \/ UNCHANGED hookVars
  PROVE  RowTellsOutcome'
<1>1. ASSUME NEW p \in HookPages, NEW f \in Fetches, OpenPage(p, f) PROVE RowTellsOutcome'
  BY <1>1 DEF OpenPage, RowTellsOutcome
<1>2. ASSUME NEW p \in HookPages, NEW f \in Fetches, ListHooks(p, f) PROVE RowTellsOutcome'
  BY <1>2 DEF ListHooks, RowTellsOutcome
<1>3. ASSUME NEW p \in HookPages, NEW f \in Fetches, ShowList(p, f) PROVE RowTellsOutcome'
  BY <1>3 DEF ShowList, RowTellsOutcome
<1>4. ASSUME NEW p \in HookPages, NEW f \in Fetches, FetchFails(p, f) PROVE RowTellsOutcome'
  BY <1>4 DEF FetchFails, RowTellsOutcome
<1>5. ASSUME NEW p \in HookPages, NEW f \in Fetches, AnswerCreated(p, f) PROVE RowTellsOutcome'
  BY <1>5 DEF AnswerCreated, RowTellsOutcome
<1>6. ASSUME NEW p \in HookPages, ResolveEndpoint(p) PROVE RowTellsOutcome'
  BY <1>6 DEF ResolveEndpoint, RowTellsOutcome
<1>7. ASSUME NEW p \in HookPages, UpdateHook(p) PROVE RowTellsOutcome'
  BY <1>7 DEF UpdateHook, RowTellsOutcome
<1>8. ASSUME NEW p \in HookPages, AnswerPage(p) PROVE RowTellsOutcome'
  BY <1>8 DEF AnswerPage, RouteAnswers, RowTellsOutcome
<1>9. ASSUME NEW p \in HookPages, CallBreaks(p) PROVE RowTellsOutcome'
  BY <1>9 DEF CallBreaks, RowTellsOutcome
<1>10. ASSUME NEW p \in HookPages, NEW e \in Hooks, AddHook(p, e) PROVE RowTellsOutcome'
  BY <1>10 DEF AddHook, Calls, RowTellsOutcome
<1>11. ASSUME NEW p \in HookPages, NEW e \in Hooks, ToggleStatus(p, e) PROVE RowTellsOutcome'
  BY <1>11 DEF ToggleStatus, Calls, RowTellsOutcome
<1>12. ASSUME NEW p \in HookPages, NEW e \in Hooks, DeleteHook(p, e) PROVE RowTellsOutcome'
  BY <1>12 DEF DeleteHook, Calls, RowTellsOutcome
<1>13. ASSUME NEW d \in Deliveries, FindActive(d) PROVE RowTellsOutcome'
  BY <1>13 DEF FindActive, Delivers, RowTellsOutcome
<1>14. ASSUME NEW d \in Deliveries, LookUpFails(d) PROVE RowTellsOutcome'
  BY <1>14 DEF LookUpFails, Delivers, Retried, HookTypeOK, Delivery, RowTellsOutcome
<1>15. ASSUME NEW d \in Deliveries, PostTimesOut(d) PROVE RowTellsOutcome'
  BY <1>15 DEF PostTimesOut, Delivers, Retried, HookTypeOK, Delivery, RowTellsOutcome
<1>16. ASSUME NEW d \in Deliveries, RecordAnswer(d) PROVE RowTellsOutcome'
  BY <1>16 DEF RecordAnswer, Delivers, Retried, Recorded, HookTypeOK, Delivery, RowTellsOutcome
<1>17. ASSUME NEW d \in Deliveries, RecordFails(d) PROVE RowTellsOutcome'
  BY <1>17 DEF RecordFails, Delivers, Retried, HookTypeOK, Delivery, RowTellsOutcome
<1>18. ASSUME NEW d \in Deliveries, FinishJob(d) PROVE RowTellsOutcome'
  BY <1>18 DEF FinishJob, Delivers, RowTellsOutcome
<1>19. ASSUME NEW d \in Deliveries, WorkerDies(d) PROVE RowTellsOutcome'
  BY <1>19 DEF WorkerDies, Delivers, RowTellsOutcome
<1>20. ASSUME NEW d \in Deliveries, NEW good \in BOOLEAN, PostEvent(d, good) PROVE RowTellsOutcome'
  BY <1>20 DEF PostEvent, Delivers, RowTellsOutcome
<1>21. ASSUME NEW d \in Deliveries, NEW e \in Hooks, QueueEvent(d, e) PROVE RowTellsOutcome'
  BY <1>21 DEF QueueEvent, Delivers, Unsent, RowTellsOutcome
<1>22. ASSUME NEW d \in Deliveries, NEW e \in Hooks, SendTest(d, e) PROVE RowTellsOutcome'
  BY <1>22 DEF SendTest, Delivers, Unsent, RowTellsOutcome
<1>23. ASSUME UNCHANGED hookVars PROVE RowTellsOutcome'
  BY <1>23 DEF hookVars, RowTellsOutcome
<1> QED
  BY <1>1, <1>2, <1>3, <1>4, <1>5, <1>6, <1>7, <1>8, <1>9, <1>10, <1>11, <1>12, <1>13, <1>14,
     <1>15, <1>16, <1>17, <1>18, <1>19, <1>20, <1>21, <1>22, <1>23 DEF HookNext

\* The inductive invariant of the webhooks.
LEMMA HookInvariant == HookSpec => []HookInv
<1>1. HookInit => HookInv
  <2> SUFFICES ASSUME HookInit PROVE HookInv
    OBVIOUS
  <2> USE HookAssumption
  <2>1. Quiet \in HookCall /\ Unsent \in Delivery
    BY DEF Quiet, HookCall, Unsent, Delivery
  <2>2. HookTypeOK
    BY <2>1, EmptyFetch DEF HookInit, HookTypeOK
  <2>3. TriesCount /\ RowTellsOutcome
    BY DEF HookInit, TriesCount, RowTellsOutcome, Unsent
  <2>4. CallsKnow /\ ListsKnow /\ AnswerKnows
    BY DEF HookInit, CallsKnow, ListsKnow, AnswerKnows, Quiet, NoFetch
  <2>5. PageShowsRow
    BY DEF HookInit, PageShowsRow, Listed, NoFetch
  <2> QED
    BY <2>2, <2>3, <2>4, <2>5 DEF HookInv
<1>2. HookInv /\ [HookNext]_hookVars => HookInv'
  BY HookTypeStep, TriesCountStep, CallsKnowStep, ListsKnowStep, AnswerKnowsStep,
     PageShowsRowStep, RowTellsOutcomeStep DEF HookInv
<1> QED
  BY <1>1, <1>2, PTL DEF HookSpec

\* Every variable of the webhooks keeps its type (HookTypeOK): the queue runs a
\* job no more often than its tries and the deaths of workers allow.
THEOREM HookTypeCorrect == HookSpec => []HookTypeOK
<1>1. HookInv => HookTypeOK
  BY DEF HookInv
<1> QED
  BY <1>1, HookInvariant, PTL

\* For any number of endpoints, open pages and lists on their way: a page shows the
\* status of the row, unless a change that it was not told of, or that came after
\* the list it shows had been read, has put it behind (webhooks-client.tsx).
THEOREM PagesShowRows == HookSpec => []PageShowsRow
<1>1. HookInv => PageShowsRow
  BY DEF HookInv
<1> QED
  BY <1>1, HookInvariant, PTL

\* For any number of deliveries and tries: the row of a delivery tells what became
\* of it, as far as the tries could tell it anything (webhook-outbound.ts).
THEOREM RowsTellOutcomes == HookSpec => []RowTellsOutcome
<1>1. HookInv => RowTellsOutcome
  BY DEF HookInv
<1> QED
  BY <1>1, HookInvariant, PTL

\* For any number of pages, endpoints, deliveries and tries: a tenant is told what
\* is so of its endpoints and of what was posted to them (webhooks-client.tsx,
\* webhook-outbound.ts).
THEOREM HooksTellTruth == HookSpec => []HooksAreTold
BY PagesShowRows, RowsTellOutcomes, PTL DEF HooksAreTold
=============================================================================
