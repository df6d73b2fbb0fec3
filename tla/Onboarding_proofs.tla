------------------------- MODULE Onboarding_proofs -------------------------
(***************************************************************************)
(* Proofs about how a customer comes in.  Accounts: what a signup page says *)
(* is so.  KeycloakClient: what was registered stays.  TenantWizard: a     *)
(* tenant is finished or excused.  Checkout: who paid finds the bills.     *)
(***************************************************************************)
EXTENDS Accounts, KeycloakClient, TenantWizard, Checkout, FiniteSetTheorems, TLAPS

(***************************************************************************)
(* Accounts                                                                *)
(***************************************************************************)

(* What a request knows: an account it made is its own, and a signup that has *)
(* stored its tenant finds it as it left it.                                  *)
RequestKnows ==
  /\ \A q \in Requests :
       /\ request[q].made => request[q].id \in 1..used
       /\ request[q].op \in {"store", "enqueue", "record", "undo"} => request[q].made
       /\ request[q].op \in {"signup", "lookup", "reuse", "signin", "grant", "revoke"}
            => ~request[q].made
       /\ request[q].op \in {"insert", "signin", "grant"} => request[q].id # None
       /\ request[q].op \in {"signup", "store", "enqueue", "record"} => request[q].slug # None
       /\ request[q].op \in {"store", "enqueue", "record"}
            => account[request[q].id] = request[q].email
       /\ request[q].op \in {"enqueue", "record"}
            => tenant[request[q].slug] = request[q].id /\ row[request[q].email] # None
  /\ \A q, r \in Requests : q # r /\ request[q].made /\ request[r].made
       => request[q].id # request[r].id

(* A page waits for the signup that it sent, and the tenant that it has shown *)
(* is nobody's to undo any more.                                              *)
PageKnows ==
  /\ \A e \in Emails :
       /\ page[e].step # "company" => page[e].slug # None
       /\ page[e].step = "sending" =>
            /\ page[e].request # None
            /\ request[page[e].request].op \in {"signup", "store", "enqueue", "record", "undo"}
            /\ request[page[e].request].email = e
            /\ request[page[e].request].slug = page[e].slug
       /\ page[e].step = "done" =>
            \A q \in Requests : request[q].made => request[q].id # tenant[page[e].slug]
  /\ \A s \in Slugs : tenant[s] # None => tenant[s] <= used

(* Before the tenant is stored nothing but the account is to be undone.       *)
RefusalKnows ==
  /\ \A k \in refused : k <= used
  /\ \A q \in Requests : request[q].made => request[q].id \notin refused
  /\ \A q \in Requests :
       request[q].made /\ (request[q].op \in {"store", "insert"}
                            \/ (request[q].op = "undo" /\ request[q].id \notin kept))
         => \A s \in Slugs : tenant[s] # request[q].id

(* A removal that is under way leaves someone, or races.                      *)
GroupKnows ==
  raced \/ (group # {} /\ \A q \in Requests : request[q].op = "revoke" => group # {request[q].id})

AccountsInv ==
  /\ AccountsTypeOK /\ RequestKnows /\ PageKnows /\ WelcomedIsWhole
  /\ RefusalKnows /\ RefusedLeavesNothing /\ GroupKnows

-----------------------------------------------------------------------------
\* A step of one request keeps the records of all.
LEMMA AccountRequestTyped ==
  ASSUME AccountsTypeOK, NEW q \in Requests, NEW r \in AccountRequest,
         Arrives(q, r) \/ GoesOn(q, r)
  PROVE  request' \in [Requests -> AccountRequest] /\ arrivals' \in 0..MaxRequests
BY AccountAssumption DEF AccountsTypeOK, Arrives, GoesOn

\* So does a page that moves on.
LEMMA SignupPageTyped ==
  ASSUME AccountsTypeOK, NEW q \in Requests, NEW step \in {"account", "done"}, Shows(q, step)
  PROVE  page' \in [Emails -> SignupPage]
<1>1. ASSUME NEW e \in Emails
      PROVE [page[e] EXCEPT !.step = step, !.request = None] \in SignupPage
  BY DEF AccountsTypeOK, SignupPage
<1> QED
  BY <1>1 DEF AccountsTypeOK, Shows

\* A request that is not under way is a record of requests.
LEMMA AccountIdle == Idle \in AccountRequest
BY AccountAssumption DEF Idle, AccountRequest, Ops

\* The types at the start.
LEMMA AccountsInitType == AccountsInit => AccountsTypeOK
<1> SUFFICES ASSUME AccountsInit PROVE AccountsTypeOK
  OBVIOUS
<1>1. [step |-> "company", slug |-> None, request |-> None] \in SignupPage
  BY DEF SignupPage
<1>2. Root \in Ids /\ 0 \in 0..MaxRequests
  BY AccountAssumption DEF Root, Ids
<1> QED
  BY <1>1, <1>2, AccountAssumption, AccountIdle DEF AccountsInit, AccountsTypeOK

\* Every step of signup, sign-in and the admins' page keeps the types.
LEMMA AccountsTypeStep ==
  ASSUME AccountsTypeOK, RequestKnows, PageKnows, AccountsNext \/ UNCHANGED accountVars
  PROVE  AccountsTypeOK'
<1> USE AccountAssumption DEF inKeycloak, accountRows, accountHistory
<1> DEFINE GoodRequest(q) ==
      /\ request[q].op \in Ops /\ request[q].email \in Emails /\ request[q].slug \in Slugs \cup {None}
      /\ request[q].id \in Ids \cup {None} /\ request[q].made \in BOOLEAN
<1>0. ASSUME NEW q \in Requests PROVE request[q] \in AccountRequest /\ GoodRequest(q)
  BY DEF AccountsTypeOK, AccountRequest
<1>a. ASSUME NEW q \in Requests PROVE Made(q) \in SUBSET Ids
  BY <1>0 DEF Made, RequestKnows, AccountsTypeOK, Ids
<1>b. ASSUME NEW e \in Emails
      PROVE  /\ page[e].step # "company" => page[e].slug \in Slugs
             /\ [page[e] EXCEPT !.step = "company"] \in SignupPage
             /\ [page[e] EXCEPT !.step = "account", !.request = None] \in SignupPage
             /\ \A s \in Slugs : [page[e] EXCEPT !.step = "account", !.slug = s] \in SignupPage
             /\ \A q \in Requests : [page[e] EXCEPT !.step = "sending", !.request = q] \in SignupPage
  <2>1. page[e] \in SignupPage
    BY DEF AccountsTypeOK
  <2>2. page[e].step # "company" => page[e].slug # None
    BY DEF PageKnows
  <2> QED
    BY <2>1, <2>2 DEF SignupPage
<1>c. ASSUME NEW q \in Requests PROVE [request[q] EXCEPT !.op = "undo"] \in AccountRequest
  BY <1>0 DEF AccountRequest, Ops
<1>1. ASSUME NEW e \in Emails, NEW s \in Slugs, ChooseCompany(e, s) PROVE AccountsTypeOK'
  BY <1>1, <1>b DEF ChooseCompany, AccountsTypeOK
<1>2. ASSUME NEW e \in Emails, GoBack(e) PROVE AccountsTypeOK'
  BY <1>2, <1>b DEF GoBack, AccountsTypeOK
<1>3. ASSUME NEW e \in Emails, NetworkError(e) PROVE AccountsTypeOK'
  BY <1>3, <1>b DEF NetworkError, AccountsTypeOK
<1>4. ASSUME NEW e \in Emails, NEW q \in Requests, Submit(e, q) PROVE AccountsTypeOK'
  <2>1. [Idle EXCEPT !.op = "signup", !.email = e, !.slug = page[e].slug] \in AccountRequest
    BY <1>4, <1>b DEF Submit, AccountRequest, Ops, Idle
  <2>2. page' \in [Emails -> SignupPage]
    BY <1>4, <1>b DEF Submit, AccountsTypeOK
  <2> QED
    BY SMTT(30), <1>4, <2>1, <2>2, AccountRequestTyped DEF Submit, AccountsTypeOK
<1>5. ASSUME NEW e \in Emails, NEW q \in Requests, AddUser(q, e) PROVE AccountsTypeOK'
  <2>1. [Idle EXCEPT !.op = "lookup", !.email = e] \in AccountRequest
    BY <1>5, <1>0, AccountIdle DEF AccountRequest, Ops
  <2> QED
    BY <1>5, <1>0, <2>1, AccountRequestTyped, SignupPageTyped, AccountIdle DEF AddUser,
       AccountsTypeOK, RequestKnows
<1>6. ASSUME NEW e \in Emails, InviteRow(e) PROVE AccountsTypeOK'
  BY <1>6, <1>0, AccountRequestTyped, SignupPageTyped, AccountIdle DEF InviteRow, AccountsTypeOK,
     RequestKnows
<1>7. ASSUME NEW q \in Requests, Crash(q) PROVE AccountsTypeOK'
  BY <1>7, <1>a, AccountRequestTyped, SignupPageTyped, AccountIdle DEF Crash, Refuses,
     AccountsTypeOK
<1>8. ASSUME NEW q \in Requests, Fails(q) PROVE AccountsTypeOK'
  BY <1>8, <1>a, AccountRequestTyped, SignupPageTyped, AccountIdle DEF Fails, Refuses,
     AccountsTypeOK
<1>9. ASSUME NEW q \in Requests, StoreTenant(q) PROVE AccountsTypeOK'
  <2>1. [request[q] EXCEPT !.op = "enqueue"] \in AccountRequest
    BY <1>9, <1>0, AccountIdle DEF AccountRequest, Ops
  <2> QED
    BY <1>9, <1>0, <2>1, AccountRequestTyped, SignupPageTyped, AccountIdle DEF StoreTenant,
       AccountsTypeOK, RequestKnows
<1>10. ASSUME NEW q \in Requests, StoreFails(q) PROVE AccountsTypeOK'
  BY <1>10, <1>a, <1>c, AccountRequestTyped, AccountIdle DEF StoreFails, AccountsTypeOK
<1>11. ASSUME NEW q \in Requests, Enqueue(q) PROVE AccountsTypeOK'
  BY <1>11, <1>0, AccountRequestTyped, SignupPageTyped, AccountIdle DEF Enqueue, Welcomes,
     AccountsTypeOK, RequestKnows
<1>12. ASSUME NEW q \in Requests, EnqueueFails(q) PROVE AccountsTypeOK'
  <2>1. [request[q] EXCEPT !.op = "record"] \in AccountRequest
    BY <1>12, <1>0, AccountIdle DEF AccountRequest, Ops
  <2> QED
    BY <1>12, <1>0, <2>1, AccountRequestTyped, SignupPageTyped, AccountIdle DEF EnqueueFails,
       AccountsTypeOK, RequestKnows
<1>13. ASSUME NEW q \in Requests, RecordFailure(q) PROVE AccountsTypeOK'
  BY <1>13, <1>0, AccountRequestTyped, SignupPageTyped, AccountIdle DEF RecordFailure, Welcomes,
     AccountsTypeOK, RequestKnows
<1>14. ASSUME NEW q \in Requests, RecordFails(q) PROVE AccountsTypeOK'
  BY <1>14, <1>a, <1>c, AccountRequestTyped, AccountIdle DEF RecordFails, AccountsTypeOK
<1>15. ASSUME NEW q \in Requests, Undo(q) PROVE AccountsTypeOK'
  BY <1>15, <1>a, <1>0, AccountRequestTyped, SignupPageTyped, AccountIdle DEF Undo, Refuses,
     DropAccount, AccountsTypeOK
<1>16. ASSUME NEW q \in Requests, UndoFails(q) PROVE AccountsTypeOK'
  BY <1>16, <1>a, AccountRequestTyped, SignupPageTyped, AccountIdle DEF UndoFails, Refuses,
     AccountsTypeOK
<1>17. ASSUME NEW q \in Requests, LookUp(q) PROVE AccountsTypeOK'
  <2>1. PICK k \in AccountsOf(request[q].email) \cup {None} :
          GoesOn(q, IF k = None THEN [request[q] EXCEPT !.op = "reuse"]
                    ELSE [request[q] EXCEPT !.op = "insert", !.id = k])
    BY <1>17 DEF LookUp
  <2>2. (IF k = None THEN [request[q] EXCEPT !.op = "reuse"]
         ELSE [request[q] EXCEPT !.op = "insert", !.id = k]) \in AccountRequest
    BY <1>0 DEF AccountsOf, AccountRequest, Ops
  <2> QED
    BY <1>17, <2>1, <2>2, AccountRequestTyped DEF LookUp, AccountsTypeOK
<1>18. ASSUME NEW q \in Requests, InsertRow(q) PROVE AccountsTypeOK'
  BY <1>18, <1>0, AccountRequestTyped, SignupPageTyped, AccountIdle DEF InsertRow,
     AccountsTypeOK, RequestKnows
<1>19. ASSUME NEW q \in Requests, InsertFails(q) PROVE AccountsTypeOK'
  BY <1>19, <1>a, <1>c, AccountRequestTyped, AccountIdle DEF InsertFails, AccountsTypeOK
<1>20. ASSUME NEW q \in Requests, ClaimRow(q) PROVE AccountsTypeOK'
  BY <1>20, <1>0, AccountRequestTyped, SignupPageTyped, AccountIdle DEF ClaimRow, AccountsTypeOK,
     RequestKnows
<1>21. ASSUME NEW q \in Requests, AddToGroup(q) PROVE AccountsTypeOK'
  BY <1>21, <1>0, AccountRequestTyped, SignupPageTyped, AccountIdle DEF AddToGroup,
     AccountsTypeOK, RequestKnows
<1>22. ASSUME NEW q \in Requests, RemoveFromGroup(q) PROVE AccountsTypeOK'
  BY <1>22, <1>0, AccountRequestTyped, SignupPageTyped, AccountIdle DEF RemoveFromGroup,
     AccountsTypeOK, RequestKnows
<1>23. ASSUME NEW q \in Requests, NEW k \in Ids, AnswerLost(q, k) PROVE AccountsTypeOK'
  BY <1>23, <1>0, AccountRequestTyped, SignupPageTyped, AccountIdle DEF AnswerLost, MakeAccount,
     AccountsTypeOK, RequestKnows
<1>24. ASSUME NEW q \in Requests, NEW k \in Ids, CreateAccount(q, k) PROVE AccountsTypeOK'
  <2>1. [request[q] EXCEPT !.op = "store", !.id = k, !.made = TRUE] \in AccountRequest
    BY <1>24, <1>0 DEF AccountRequest, Ops
  <2> QED
    BY <1>24, <1>0, <2>1, AccountRequestTyped DEF CreateAccount, MakeAccount, AccountsTypeOK
<1>25. ASSUME NEW q \in Requests, NEW k \in Ids, CreatePending(q, k) PROVE AccountsTypeOK'
  <2>1. [request[q] EXCEPT !.op = "insert", !.id = k, !.made = TRUE] \in AccountRequest
    BY <1>25, <1>0 DEF AccountRequest, Ops
  <2> QED
    BY <1>25, <1>0, <2>1, AccountRequestTyped DEF CreatePending, MakeAccount, AccountsTypeOK
<1>26. ASSUME NEW q \in Requests, NEW k \in Ids, SignIn(q, k) PROVE AccountsTypeOK'
  <2>1. [Idle EXCEPT !.op = "signin", !.email = account[k], !.id = k] \in AccountRequest
    BY <1>26 DEF SignIn, AccountRequest, Ops, Idle, AccountsTypeOK
  <2> QED
    BY <1>26, <2>1, AccountRequestTyped DEF SignIn, AccountsTypeOK
<1>27. ASSUME NEW q \in Requests, NEW k \in Ids, Grant(q, k) PROVE AccountsTypeOK'
  <2>1. [Idle EXCEPT !.op = "grant", !.id = k] \in AccountRequest
    BY <1>27 DEF AccountRequest, Ops, Idle
  <2> QED
    BY <1>27, <2>1, AccountRequestTyped DEF Grant, AccountsTypeOK
<1>28. ASSUME NEW q \in Requests, NEW k \in Ids, Revoke(q, k) PROVE AccountsTypeOK'
  <2>1. [Idle EXCEPT !.op = "revoke", !.id = k] \in AccountRequest
    BY <1>28 DEF AccountRequest, Ops, Idle
  <2> QED
    BY <1>28, <2>1, AccountRequestTyped DEF Revoke, AccountsTypeOK
<1>29. ASSUME NEW k \in Ids, SessionEnds(k) PROVE AccountsTypeOK'
  BY <1>29, <1>0, AccountRequestTyped, SignupPageTyped, AccountIdle DEF SessionEnds,
     AccountsTypeOK, RequestKnows
<1> QED
  BY <1>1, <1>2, <1>3, <1>4, <1>5, <1>6, <1>7, <1>8, <1>9, <1>10, <1>11, <1>12, <1>13, <1>14,
     <1>15, <1>16, <1>17, <1>18, <1>19, <1>20, <1>21, <1>22, <1>23, <1>24, <1>25, <1>26, <1>27,
     <1>28, <1>29 DEF AccountsNext, accountVars, AccountsTypeOK

\* An account that is made with its answer lost is new, and its request is over.
LEMMA LostAccountIsNew ==
  ASSUME AccountsTypeOK, RequestKnows, NEW q \in Requests, NEW k \in Ids, AnswerLost(q, k)
  PROVE  /\ used \in Nat /\ k = used + 1 /\ used' = k
         /\ tenant' = tenant /\ row' = row
         /\ ~request'[q].made /\ request'[q].op = "idle"
         /\ \A r \in Requests \ {q} : request'[r] = request[r]
         /\ \A r \in Requests \ {q} : request[r].made =>
              request[r].id <= used /\ account'[request[r].id] = account[request[r].id]
<1>1. /\ used \in Nat /\ k = used + 1 /\ used' = k
      /\ account' = [account EXCEPT ![k] = request[q].email]
      /\ request' = [request EXCEPT ![q] = Idle] /\ tenant' = tenant /\ row' = row
  BY AccountAssumption DEF AnswerLost, MakeAccount, GoesOn, accountRows, AccountsTypeOK, Ids
<1>2. /\ ~request'[q].made /\ request'[q].op = "idle"
      /\ \A r \in Requests \ {q} : request'[r] = request[r]
  BY <1>1 DEF Idle, AccountsTypeOK
<1>3. ASSUME NEW r \in Requests, request[r].made PROVE request[r].id \in 1..used
  BY <1>3 DEF RequestKnows
<1>4. ASSUME NEW r \in Requests, request[r].made PROVE account'[request[r].id] = account[request[r].id]
  BY <1>1, <1>3, <1>4
<1> QED
  BY <1>1, <1>2, <1>3, <1>4

\* What a signup has stored is still there when it goes on.
LEMMA RequestKnowsStep ==
  ASSUME AccountsTypeOK, AccountsTypeOK', RequestKnows, PageKnows,
         AccountsNext \/ UNCHANGED accountVars
  PROVE  RequestKnows'
<1> USE AccountAssumption DEF inKeycloak, accountRows, accountHistory, Arrives, GoesOn, Refuses,
      Welcomes, Idle
<1>1. ASSUME NEW e \in Emails, NEW s \in Slugs, ChooseCompany(e, s) PROVE RequestKnows'
  BY <1>1 DEF ChooseCompany, RequestKnows
<1>2. ASSUME NEW e \in Emails, GoBack(e) PROVE RequestKnows'
  BY <1>2 DEF GoBack, RequestKnows
<1>3. ASSUME NEW e \in Emails, NetworkError(e) PROVE RequestKnows'
  BY <1>3 DEF NetworkError, RequestKnows
<1>4. ASSUME NEW e \in Emails, NEW q \in Requests, Submit(e, q) PROVE RequestKnows'
  BY <1>4 DEF Submit, RequestKnows, PageKnows
<1>5. ASSUME NEW e \in Emails, NEW q \in Requests, AddUser(q, e) PROVE RequestKnows'
  BY <1>5 DEF AddUser, RequestKnows
<1>6. ASSUME NEW e \in Emails, InviteRow(e) PROVE RequestKnows'
  BY <1>6 DEF InviteRow, RequestKnows
<1>7. ASSUME NEW q \in Requests, Crash(q) PROVE RequestKnows'
  BY <1>7 DEF Crash, RequestKnows
<1>8. ASSUME NEW q \in Requests, Fails(q) PROVE RequestKnows'
  BY <1>8 DEF Fails, RequestKnows
<1>9. ASSUME NEW q \in Requests, StoreTenant(q) PROVE RequestKnows'
  BY <1>9 DEF StoreTenant, AccountsTypeOK, Ids, RequestKnows
<1>10. ASSUME NEW q \in Requests, StoreFails(q) PROVE RequestKnows'
  BY <1>10 DEF StoreFails, RequestKnows
<1>11. ASSUME NEW q \in Requests, Enqueue(q) PROVE RequestKnows'
  BY <1>11 DEF Enqueue, RequestKnows
<1>12. ASSUME NEW q \in Requests, EnqueueFails(q) PROVE RequestKnows'
  BY <1>12 DEF EnqueueFails, RequestKnows
<1>13. ASSUME NEW q \in Requests, RecordFailure(q) PROVE RequestKnows'
  BY <1>13 DEF RecordFailure, RequestKnows
<1>14. ASSUME NEW q \in Requests, RecordFails(q) PROVE RequestKnows'
  BY <1>14 DEF RecordFails, RequestKnows
<1>15. ASSUME NEW q \in Requests, Undo(q) PROVE RequestKnows'
  BY <1>15 DEF Undo, DropAccount, RequestKnows
<1>16. ASSUME NEW q \in Requests, UndoFails(q) PROVE RequestKnows'
  BY <1>16 DEF UndoFails, RequestKnows
<1>17. ASSUME NEW q \in Requests, LookUp(q) PROVE RequestKnows'
  BY <1>17 DEF LookUp, RequestKnows
<1>18. ASSUME NEW q \in Requests, InsertRow(q) PROVE RequestKnows'
  BY <1>18 DEF InsertRow, RequestKnows
<1>19. ASSUME NEW q \in Requests, InsertFails(q) PROVE RequestKnows'
  BY <1>19 DEF InsertFails, RequestKnows
<1>20. ASSUME NEW q \in Requests, ClaimRow(q) PROVE RequestKnows'
  BY <1>20 DEF ClaimRow, RequestKnows
<1>21. ASSUME NEW q \in Requests, AddToGroup(q) PROVE RequestKnows'
  BY <1>21 DEF AddToGroup, RequestKnows
<1>22. ASSUME NEW q \in Requests, RemoveFromGroup(q) PROVE RequestKnows'
  BY <1>22 DEF RemoveFromGroup, RequestKnows
<1>23. ASSUME NEW q \in Requests, NEW k \in Ids, AnswerLost(q, k) PROVE RequestKnows'
  BY <1>23, LostAccountIsNew DEF RequestKnows
<1>24. ASSUME NEW q \in Requests, NEW k \in Ids, CreateAccount(q, k) PROVE RequestKnows'
  BY <1>24 DEF CreateAccount, MakeAccount, AccountsTypeOK, Ids, RequestKnows
<1>25. ASSUME NEW q \in Requests, NEW k \in Ids, CreatePending(q, k) PROVE RequestKnows'
  BY <1>25 DEF CreatePending, MakeAccount, AccountsTypeOK, Ids, RequestKnows
<1>26. ASSUME NEW q \in Requests, NEW k \in Ids, SignIn(q, k) PROVE RequestKnows'
  BY <1>26 DEF SignIn, RequestKnows
<1>27. ASSUME NEW q \in Requests, NEW k \in Ids, Grant(q, k) PROVE RequestKnows'
  BY <1>27 DEF Grant, RequestKnows
<1>28. ASSUME NEW q \in Requests, NEW k \in Ids, Revoke(q, k) PROVE RequestKnows'
  BY <1>28 DEF Revoke, RequestKnows
<1>29. ASSUME NEW k \in Ids, SessionEnds(k) PROVE RequestKnows'
  BY <1>29 DEF SessionEnds, RequestKnows
<1>30. ASSUME UNCHANGED accountVars PROVE RequestKnows'
  BY <1>30 DEF accountVars, RequestKnows
<1> QED
  BY <1>1, <1>2, <1>3, <1>4, <1>5, <1>6, <1>7, <1>8, <1>9, <1>10, <1>11, <1>12, <1>13, <1>14,
     <1>15, <1>16, <1>17, <1>18, <1>19, <1>20, <1>21, <1>22, <1>23, <1>24, <1>25, <1>26, <1>27,
     <1>28, <1>29, <1>30 DEF AccountsNext

(* What an answer changes: the page that waits for it, and there the step.    *)
LEMMA AnswerIsShown ==
  ASSUME AccountsTypeOK, NEW q \in Requests, NEW step \in {"account", "done"}, Shows(q, step),
         NEW e \in Emails
  PROVE  /\ page'[e].slug = page[e].slug
         /\ IF page[e].step = "sending" /\ page[e].request = q
            THEN page'[e].step = step ELSE page'[e] = page[e]
<1>1. page[e] \in SignupPage
  BY DEF AccountsTypeOK
<1> QED
  BY <1>1 DEF Shows, SignupPage

\* A page that says welcome is about a signup that is complete.
LEMMA PageKnowsStep ==
  ASSUME AccountsTypeOK, AccountsTypeOK', RequestKnows, PageKnows, WelcomedIsWhole,
         AccountsNext \/ UNCHANGED accountVars
  PROVE  PageKnows' /\ WelcomedIsWhole'
<1> USE AccountAssumption DEF inKeycloak, accountRows, accountHistory, Arrives, GoesOn, Refuses,
      Welcomes, Idle
<1>1. ASSUME NEW e \in Emails, NEW s \in Slugs, ChooseCompany(e, s)
      PROVE PageKnows' /\ WelcomedIsWhole'
  BY <1>1 DEF ChooseCompany, RequestKnows, PageKnows, WelcomedIsWhole
<1>2. ASSUME NEW e \in Emails, GoBack(e) PROVE PageKnows' /\ WelcomedIsWhole'
  BY <1>2 DEF GoBack, RequestKnows, PageKnows, WelcomedIsWhole
<1>3. ASSUME NEW e \in Emails, NetworkError(e) PROVE PageKnows' /\ WelcomedIsWhole'
  BY <1>3 DEF NetworkError, PageKnows, WelcomedIsWhole
<1>4. ASSUME NEW e \in Emails, NEW q \in Requests, Submit(e, q)
      PROVE PageKnows' /\ WelcomedIsWhole'
  BY SMTT(30), <1>4 DEF Submit, AccountsTypeOK, AccountRequest, SignupPage, Ids, RequestKnows,
     PageKnows, WelcomedIsWhole
<1>5. ASSUME NEW e \in Emails, NEW q \in Requests, AddUser(q, e)
      PROVE PageKnows' /\ WelcomedIsWhole'
  BY <1>5 DEF AddUser, PageKnows, WelcomedIsWhole
<1>6. ASSUME NEW e \in Emails, InviteRow(e) PROVE PageKnows' /\ WelcomedIsWhole'
  BY <1>6 DEF InviteRow, PageKnows, WelcomedIsWhole
<1>7. ASSUME NEW q \in Requests, Crash(q) PROVE PageKnows' /\ WelcomedIsWhole'
  BY <1>7, AnswerIsShown DEF Crash, SignupPage, RequestKnows, PageKnows, WelcomedIsWhole
<1>8. ASSUME NEW q \in Requests, Fails(q) PROVE PageKnows' /\ WelcomedIsWhole'
  BY <1>8, AnswerIsShown DEF Fails, AccountRequest, RequestKnows, PageKnows, WelcomedIsWhole
<1>9. ASSUME NEW q \in Requests, StoreTenant(q) PROVE PageKnows' /\ WelcomedIsWhole'
  BY <1>9 DEF StoreTenant, RequestKnows, PageKnows, WelcomedIsWhole
<1>10. ASSUME NEW q \in Requests, StoreFails(q) PROVE PageKnows' /\ WelcomedIsWhole'
  BY <1>10 DEF StoreFails, PageKnows, WelcomedIsWhole
<1>11. ASSUME NEW q \in Requests, Enqueue(q) PROVE PageKnows' /\ WelcomedIsWhole'
  <2>1. tenant' = tenant /\ account' = account /\ row' = row /\ recorded' = recorded \cup {request[q].slug}
    BY <1>11 DEF Enqueue
  <2>2. PageKnows'
    BY <1>11, <2>1, AnswerIsShown DEF Enqueue, AccountsTypeOK, RequestKnows, PageKnows
  <2>3. ASSUME NEW e \in Emails, page'[e].step = "done"
        PROVE  /\ page'[e].slug = page[e].slug
               /\ page[e].step = "done" \/ (request[q].email = e /\ request[q].slug = page[e].slug)
    BY <1>11, <2>3, AnswerIsShown DEF Enqueue, PageKnows
  <2>4. /\ tenant[request[q].slug] = request[q].id /\ request[q].id # None
        /\ account[request[q].id] = request[q].email /\ row[request[q].email] # None
    BY <1>11 DEF Enqueue, RequestKnows, AccountsTypeOK, Ids
  <2> QED
    BY <2>1, <2>2, <2>3, <2>4 DEF WelcomedIsWhole
<1>12. ASSUME NEW q \in Requests, EnqueueFails(q) PROVE PageKnows' /\ WelcomedIsWhole'
  BY <1>12 DEF EnqueueFails, PageKnows, WelcomedIsWhole
<1>13. ASSUME NEW q \in Requests, RecordFailure(q) PROVE PageKnows' /\ WelcomedIsWhole'
  BY <1>13, AnswerIsShown DEF RecordFailure, AccountsTypeOK, AccountRequest, SignupPage, Ids,
     RequestKnows, PageKnows, WelcomedIsWhole
<1>14. ASSUME NEW q \in Requests, RecordFails(q) PROVE PageKnows' /\ WelcomedIsWhole'
  BY <1>14 DEF RecordFails, PageKnows, WelcomedIsWhole
<1>15. ASSUME NEW q \in Requests, Undo(q) PROVE PageKnows' /\ WelcomedIsWhole'
  <2>1. PageKnows'
    BY <1>15, AnswerIsShown DEF Undo, DropAccount, PageKnows
  <2>2. request[q].made /\ \A k \in Ids : k # request[q].id => account'[k] = account[k]
    BY <1>15 DEF Undo, DropAccount, AccountsTypeOK, RequestKnows
  <2>3. ASSUME NEW e \in Emails, page'[e].step = "done"
        PROVE  page[e].step = "done" /\ page'[e].slug = page[e].slug
    BY <1>15, <2>3, AnswerIsShown DEF Undo
  <2>4. tenant' = tenant /\ row' = row /\ recorded' = recorded
    BY <1>15 DEF Undo
  <2> QED
    BY <2>1, <2>2, <2>3, <2>4 DEF AccountsTypeOK, SignupPage, PageKnows, WelcomedIsWhole
<1>16. ASSUME NEW q \in Requests, UndoFails(q) PROVE PageKnows' /\ WelcomedIsWhole'
  BY <1>16, AnswerIsShown DEF UndoFails, AccountRequest, SignupPage, PageKnows, WelcomedIsWhole
<1>17. ASSUME NEW q \in Requests, LookUp(q) PROVE PageKnows' /\ WelcomedIsWhole'
  BY <1>17 DEF LookUp, RequestKnows, PageKnows, WelcomedIsWhole
<1>18. ASSUME NEW q \in Requests, InsertRow(q) PROVE PageKnows' /\ WelcomedIsWhole'
  BY <1>18 DEF InsertRow, PageKnows, WelcomedIsWhole
<1>19. ASSUME NEW q \in Requests, InsertFails(q) PROVE PageKnows' /\ WelcomedIsWhole'
  BY <1>19 DEF InsertFails, PageKnows, WelcomedIsWhole
<1>20. ASSUME NEW q \in Requests, ClaimRow(q) PROVE PageKnows' /\ WelcomedIsWhole'
  BY <1>20 DEF ClaimRow, RequestKnows, PageKnows, WelcomedIsWhole
<1>21. ASSUME NEW q \in Requests, AddToGroup(q) PROVE PageKnows' /\ WelcomedIsWhole'
  BY <1>21 DEF AddToGroup, PageKnows, WelcomedIsWhole
<1>22. ASSUME NEW q \in Requests, RemoveFromGroup(q) PROVE PageKnows' /\ WelcomedIsWhole'
  BY <1>22 DEF RemoveFromGroup, PageKnows, WelcomedIsWhole
<1>23. ASSUME NEW q \in Requests, NEW k \in Ids, AnswerLost(q, k)
       PROVE PageKnows' /\ WelcomedIsWhole'
  BY SMTT(30), <1>23, AnswerIsShown DEF AnswerLost, MakeAccount, AccountsTypeOK, AccountRequest,
     SignupPage, Ids, RequestKnows, PageKnows, AccountsOf, WelcomedIsWhole
<1>24. ASSUME NEW q \in Requests, NEW k \in Ids, CreateAccount(q, k)
       PROVE PageKnows' /\ WelcomedIsWhole'
  BY <1>24 DEF CreateAccount, MakeAccount, AccountsTypeOK, SignupPage, Ids, PageKnows,
     AccountsOf, WelcomedIsWhole
<1>25. ASSUME NEW q \in Requests, NEW k \in Ids, CreatePending(q, k)
       PROVE PageKnows' /\ WelcomedIsWhole'
  BY <1>25 DEF CreatePending, MakeAccount, AccountsTypeOK, Ids, PageKnows, AccountsOf,
     WelcomedIsWhole
<1>26. ASSUME NEW q \in Requests, NEW k \in Ids, SignIn(q, k) PROVE PageKnows' /\ WelcomedIsWhole'
  BY <1>26 DEF SignIn, PageKnows, WelcomedIsWhole
<1>27. ASSUME NEW q \in Requests, NEW k \in Ids, Grant(q, k) PROVE PageKnows' /\ WelcomedIsWhole'
  BY <1>27 DEF Grant, PageKnows, WelcomedIsWhole
<1>28. ASSUME NEW q \in Requests, NEW k \in Ids, Revoke(q, k) PROVE PageKnows' /\ WelcomedIsWhole'
  BY <1>28 DEF Revoke, PageKnows, WelcomedIsWhole
<1>29. ASSUME NEW k \in Ids, SessionEnds(k) PROVE PageKnows' /\ WelcomedIsWhole'
  BY <1>29 DEF SessionEnds, PageKnows, WelcomedIsWhole
<1>30. ASSUME UNCHANGED accountVars PROVE PageKnows' /\ WelcomedIsWhole'
  BY <1>30 DEF accountVars, PageKnows, WelcomedIsWhole
<1> QED
  BY <1>1, <1>2, <1>3, <1>4, <1>5, <1>6, <1>7, <1>8, <1>9, <1>10, <1>11, <1>12, <1>13, <1>14,
     <1>15, <1>16, <1>17, <1>18, <1>19, <1>20, <1>21, <1>22, <1>23, <1>24, <1>25, <1>26, <1>27,
     <1>28, <1>29, <1>30 DEF AccountsNext

\* What a refused signup had made is undone.
LEMMA RefusalKnowsStep ==
  ASSUME AccountsTypeOK, AccountsTypeOK', RequestKnows, PageKnows, RefusalKnows,
         RefusedLeavesNothing, AccountsNext \/ UNCHANGED accountVars
  PROVE  RefusalKnows' /\ RefusedLeavesNothing'
<1> USE AccountAssumption DEF inKeycloak, accountRows, accountHistory, Arrives, GoesOn, Refuses,
      Welcomes, Idle
<1>1. ASSUME NEW e \in Emails, NEW s \in Slugs, ChooseCompany(e, s)
      PROVE RefusalKnows' /\ RefusedLeavesNothing'
  BY <1>1 DEF ChooseCompany, RefusalKnows, RefusedLeavesNothing
<1>2. ASSUME NEW e \in Emails, GoBack(e) PROVE RefusalKnows' /\ RefusedLeavesNothing'
  BY <1>2 DEF GoBack, RefusalKnows, RefusedLeavesNothing
<1>3. ASSUME NEW e \in Emails, NetworkError(e) PROVE RefusalKnows' /\ RefusedLeavesNothing'
  BY <1>3 DEF NetworkError, RefusalKnows, RefusedLeavesNothing
<1>4. ASSUME NEW e \in Emails, NEW q \in Requests, Submit(e, q)
      PROVE RefusalKnows' /\ RefusedLeavesNothing'
  BY <1>4 DEF Submit, RefusalKnows, RefusedLeavesNothing
<1>5. ASSUME NEW e \in Emails, NEW q \in Requests, AddUser(q, e)
      PROVE RefusalKnows' /\ RefusedLeavesNothing'
  BY <1>5 DEF AddUser, RefusalKnows, RefusedLeavesNothing
<1>6. ASSUME NEW e \in Emails, InviteRow(e) PROVE RefusalKnows' /\ RefusedLeavesNothing'
  BY <1>6 DEF InviteRow, RefusalKnows, RefusedLeavesNothing
<1>7. ASSUME NEW q \in Requests, Crash(q) PROVE RefusalKnows' /\ RefusedLeavesNothing'
  BY <1>7 DEF Crash, Made, AccountsTypeOK, RequestKnows, RefusalKnows, RefusedLeavesNothing
<1>8. ASSUME NEW q \in Requests, Fails(q) PROVE RefusalKnows' /\ RefusedLeavesNothing'
  BY <1>8 DEF Fails, Made, RequestKnows, RefusalKnows, RefusedLeavesNothing
<1>9. ASSUME NEW q \in Requests, StoreTenant(q) PROVE RefusalKnows' /\ RefusedLeavesNothing'
  BY <1>9 DEF StoreTenant, AccountsTypeOK, RequestKnows, RefusalKnows, RefusedLeavesNothing
<1>10. ASSUME NEW q \in Requests, StoreFails(q) PROVE RefusalKnows' /\ RefusedLeavesNothing'
  BY <1>10 DEF StoreFails, RefusalKnows, RefusedLeavesNothing
<1>11. ASSUME NEW q \in Requests, Enqueue(q) PROVE RefusalKnows' /\ RefusedLeavesNothing'
  BY <1>11 DEF Enqueue, RefusalKnows, RefusedLeavesNothing
<1>12. ASSUME NEW q \in Requests, EnqueueFails(q) PROVE RefusalKnows' /\ RefusedLeavesNothing'
  BY <1>12 DEF EnqueueFails, RefusalKnows, RefusedLeavesNothing
<1>13. ASSUME NEW q \in Requests, RecordFailure(q) PROVE RefusalKnows' /\ RefusedLeavesNothing'
  BY <1>13 DEF RecordFailure, RefusalKnows, RefusedLeavesNothing
<1>14. ASSUME NEW q \in Requests, RecordFails(q) PROVE RefusalKnows' /\ RefusedLeavesNothing'
  BY <1>14 DEF RecordFails, Made, RefusalKnows, RefusedLeavesNothing
<1>15. ASSUME NEW q \in Requests, Undo(q) PROVE RefusalKnows' /\ RefusedLeavesNothing'
  BY <1>15 DEF Undo, Made, DropAccount, AccountsTypeOK, RequestKnows, RefusalKnows,
     RefusedLeavesNothing
<1>16. ASSUME NEW q \in Requests, UndoFails(q) PROVE RefusalKnows' /\ RefusedLeavesNothing'
  BY <1>16 DEF UndoFails, Made, AccountsTypeOK, RequestKnows, RefusalKnows, RefusedLeavesNothing
<1>17. ASSUME NEW q \in Requests, LookUp(q) PROVE RefusalKnows' /\ RefusedLeavesNothing'
  BY <1>17 DEF LookUp, RequestKnows, RefusalKnows, RefusedLeavesNothing
<1>18. ASSUME NEW q \in Requests, InsertRow(q) PROVE RefusalKnows' /\ RefusedLeavesNothing'
  BY <1>18 DEF InsertRow, RefusalKnows, RefusedLeavesNothing
<1>19. ASSUME NEW q \in Requests, InsertFails(q) PROVE RefusalKnows' /\ RefusedLeavesNothing'
  BY <1>19 DEF InsertFails, RefusalKnows, RefusedLeavesNothing
<1>20. ASSUME NEW q \in Requests, ClaimRow(q) PROVE RefusalKnows' /\ RefusedLeavesNothing'
  BY <1>20 DEF ClaimRow, RefusalKnows, RefusedLeavesNothing
<1>21. ASSUME NEW q \in Requests, AddToGroup(q) PROVE RefusalKnows' /\ RefusedLeavesNothing'
  BY <1>21 DEF AddToGroup, RefusalKnows, RefusedLeavesNothing
<1>22. ASSUME NEW q \in Requests, RemoveFromGroup(q) PROVE RefusalKnows' /\ RefusedLeavesNothing'
  BY <1>22 DEF RemoveFromGroup, RefusalKnows, RefusedLeavesNothing
<1>23. ASSUME NEW q \in Requests, NEW k \in Ids, AnswerLost(q, k)
       PROVE RefusalKnows' /\ RefusedLeavesNothing'
  <2>1. refused' = refused \cup {k} /\ kept' = kept \cup {k}
    BY <1>23 DEF AnswerLost
  <2>2. \A s \in Slugs : tenant[s] # k
    BY SMTT(30), <1>23, LostAccountIsNew DEF PageKnows, AccountsTypeOK, Ids
  <2>3. RefusalKnows'
    BY <1>23, <2>1, <2>2, LostAccountIsNew DEF RefusalKnows, AccountsTypeOK, Ids
  <2>4. RefusedLeavesNothing'
    BY <1>23, <2>1, <2>2, LostAccountIsNew DEF RefusedLeavesNothing, RefusalKnows, AccountsTypeOK, Ids,
       AnswerLost, MakeAccount
  <2> QED
    BY <2>3, <2>4
<1>24. ASSUME NEW q \in Requests, NEW k \in Ids, CreateAccount(q, k)
       PROVE RefusalKnows' /\ RefusedLeavesNothing'
  BY <1>24 DEF CreateAccount, MakeAccount, AccountsTypeOK, Ids, PageKnows, RefusalKnows,
     RefusedLeavesNothing
<1>25. ASSUME NEW q \in Requests, NEW k \in Ids, CreatePending(q, k)
       PROVE RefusalKnows' /\ RefusedLeavesNothing'
  BY <1>25 DEF CreatePending, MakeAccount, AccountsTypeOK, Ids, PageKnows, RefusalKnows,
     RefusedLeavesNothing
<1>26. ASSUME NEW q \in Requests, NEW k \in Ids, SignIn(q, k)
       PROVE RefusalKnows' /\ RefusedLeavesNothing'
  BY <1>26 DEF SignIn, RefusalKnows, RefusedLeavesNothing
<1>27. ASSUME NEW q \in Requests, NEW k \in Ids, Grant(q, k)
       PROVE RefusalKnows' /\ RefusedLeavesNothing'
  BY <1>27 DEF Grant, RefusalKnows, RefusedLeavesNothing
<1>28. ASSUME NEW q \in Requests, NEW k \in Ids, Revoke(q, k)
       PROVE RefusalKnows' /\ RefusedLeavesNothing'
  BY <1>28 DEF Revoke, RefusalKnows, RefusedLeavesNothing
<1>29. ASSUME NEW k \in Ids, SessionEnds(k) PROVE RefusalKnows' /\ RefusedLeavesNothing'
  BY <1>29 DEF SessionEnds, RefusalKnows, RefusedLeavesNothing
<1> QED
  BY <1>1, <1>2, <1>3, <1>4, <1>5, <1>6, <1>7, <1>8, <1>9, <1>10, <1>11, <1>12, <1>13, <1>14,
     <1>15, <1>16, <1>17, <1>18, <1>19, <1>20, <1>21, <1>22, <1>23, <1>24, <1>25, <1>26, <1>27,
     <1>28, <1>29 DEF AccountsNext, accountVars, RefusalKnows, RefusedLeavesNothing

\* An admin is taken away only while another one is left.
LEMMA GroupKnowsStep ==
  ASSUME AccountsTypeOK, AccountsTypeOK', RequestKnows, GroupKnows,
         AccountsNext \/ UNCHANGED accountVars
  PROVE  GroupKnows'
<1> USE AccountAssumption DEF inKeycloak, accountRows, accountHistory, Arrives, GoesOn, Refuses,
      Welcomes, Idle
<1>1. ASSUME NEW e \in Emails, NEW s \in Slugs, ChooseCompany(e, s) PROVE GroupKnows'
  BY <1>1 DEF ChooseCompany, GroupKnows
<1>2. ASSUME NEW e \in Emails, GoBack(e) PROVE GroupKnows'
  BY <1>2 DEF GoBack, GroupKnows
<1>3. ASSUME NEW e \in Emails, NetworkError(e) PROVE GroupKnows'
  BY <1>3 DEF NetworkError, GroupKnows
<1>4. ASSUME NEW e \in Emails, NEW q \in Requests, Submit(e, q) PROVE GroupKnows'
  BY <1>4 DEF Submit, GroupKnows
<1>5. ASSUME NEW e \in Emails, NEW q \in Requests, AddUser(q, e) PROVE GroupKnows'
  BY <1>5 DEF AddUser, GroupKnows
<1>6. ASSUME NEW e \in Emails, InviteRow(e) PROVE GroupKnows'
  BY <1>6 DEF InviteRow, GroupKnows
<1>7. ASSUME NEW q \in Requests, Crash(q) PROVE GroupKnows'
  BY <1>7 DEF Crash, GroupKnows
<1>8. ASSUME NEW q \in Requests, Fails(q) PROVE GroupKnows'
  BY <1>8 DEF Fails, GroupKnows
<1>9. ASSUME NEW q \in Requests, StoreTenant(q) PROVE GroupKnows'
  BY <1>9 DEF StoreTenant, GroupKnows
<1>10. ASSUME NEW q \in Requests, StoreFails(q) PROVE GroupKnows'
  BY <1>10 DEF StoreFails, GroupKnows
<1>11. ASSUME NEW q \in Requests, Enqueue(q) PROVE GroupKnows'
  BY <1>11 DEF Enqueue, GroupKnows
<1>12. ASSUME NEW q \in Requests, EnqueueFails(q) PROVE GroupKnows'
  BY <1>12 DEF EnqueueFails, GroupKnows
<1>13. ASSUME NEW q \in Requests, RecordFailure(q) PROVE GroupKnows'
  BY <1>13 DEF RecordFailure, GroupKnows
<1>14. ASSUME NEW q \in Requests, RecordFails(q) PROVE GroupKnows'
  BY <1>14 DEF RecordFails, GroupKnows
<1>15. ASSUME NEW q \in Requests, Undo(q) PROVE GroupKnows'
  <2>1. ~raced' => request[q].id \notin group /\ ~raced
    BY <1>15 DEF Undo
  <2>2. ~raced' => group' = group
    BY <1>15, <2>1 DEF Undo, DropAccount
  <2> QED
    BY <1>15, <2>1, <2>2 DEF Undo, AccountsTypeOK, GroupKnows
<1>16. ASSUME NEW q \in Requests, UndoFails(q) PROVE GroupKnows'
  BY <1>16 DEF UndoFails, GroupKnows
<1>17. ASSUME NEW q \in Requests, LookUp(q) PROVE GroupKnows'
  BY <1>17 DEF LookUp, GroupKnows
<1>18. ASSUME NEW q \in Requests, InsertRow(q) PROVE GroupKnows'
  BY <1>18 DEF InsertRow, GroupKnows
<1>19. ASSUME NEW q \in Requests, InsertFails(q) PROVE GroupKnows'
  BY <1>19 DEF InsertFails, GroupKnows
<1>20. ASSUME NEW q \in Requests, ClaimRow(q) PROVE GroupKnows'
  BY <1>20 DEF ClaimRow, GroupKnows
<1>21. ASSUME NEW q \in Requests, AddToGroup(q) PROVE GroupKnows'
  <2>1. group # {} => group' # {}
    BY <1>21 DEF AddToGroup
  <2>2. \A k : group # {} /\ group # {k} => group' # {k}
    BY <1>21 DEF AddToGroup
  <2> QED
    BY <1>21, <2>1, <2>2 DEF AddToGroup, AccountsTypeOK, GroupKnows
<1>22. ASSUME NEW q \in Requests, RemoveFromGroup(q) PROVE GroupKnows'
  <2>1. group # {} /\ group # {request[q].id} => group' # {}
    BY <1>22 DEF RemoveFromGroup
  <2>2. ~raced' => ~raced /\ \A o \in Requests : request'[o].op # "revoke"
    BY <1>22 DEF RemoveFromGroup, AccountsTypeOK
  <2> QED
    BY <1>22, <2>1, <2>2 DEF RemoveFromGroup, GroupKnows
<1>23. ASSUME NEW q \in Requests, NEW k \in Ids, AnswerLost(q, k) PROVE GroupKnows'
  BY <1>23 DEF AnswerLost, MakeAccount, GroupKnows
<1>24. ASSUME NEW q \in Requests, NEW k \in Ids, CreateAccount(q, k) PROVE GroupKnows'
  BY <1>24 DEF CreateAccount, MakeAccount, GroupKnows
<1>25. ASSUME NEW q \in Requests, NEW k \in Ids, CreatePending(q, k) PROVE GroupKnows'
  BY <1>25 DEF CreatePending, MakeAccount, GroupKnows
<1>26. ASSUME NEW q \in Requests, NEW k \in Ids, SignIn(q, k) PROVE GroupKnows'
  BY <1>26 DEF SignIn, GroupKnows
<1>27. ASSUME NEW q \in Requests, NEW k \in Ids, Grant(q, k) PROVE GroupKnows'
  BY <1>27 DEF Grant, GroupKnows
<1>28. ASSUME NEW q \in Requests, NEW k \in Ids, Revoke(q, k) PROVE GroupKnows'
  <2>1. group = {k} => Cardinality(group) = 1
    BY FS_Singleton
  <2>2. group # {k}
    BY <1>28, <2>1 DEF Revoke
  <2>3. \A o \in Requests : o # q => request'[o] = request[o]
    BY <1>28 DEF Revoke, AccountsTypeOK
  <2>4. request'[q].id = k
    BY <1>28 DEF Revoke, AccountsTypeOK
  <2> QED
    BY <1>28, <2>2, <2>3, <2>4 DEF Revoke, GroupKnows
<1>29. ASSUME NEW k \in Ids, SessionEnds(k) PROVE GroupKnows'
  BY <1>29 DEF SessionEnds, GroupKnows
<1> QED
  BY <1>1, <1>2, <1>3, <1>4, <1>5, <1>6, <1>7, <1>8, <1>9, <1>10, <1>11, <1>12, <1>13, <1>14,
     <1>15, <1>16, <1>17, <1>18, <1>19, <1>20, <1>21, <1>22, <1>23, <1>24, <1>25, <1>26, <1>27,
     <1>28, <1>29 DEF AccountsNext, accountVars, GroupKnows

\* The inductive invariant of the accounts.
LEMMA AccountsInvariant == AccountsSpec => []AccountsInv
<1>1. AccountsInit => AccountsInv
  <2> SUFFICES ASSUME AccountsInit PROVE AccountsInv
    OBVIOUS
  <2>1. RequestKnows /\ GroupKnows
    BY AccountAssumption DEF AccountsInit, RequestKnows, GroupKnows, Idle
  <2>2. PageKnows /\ WelcomedIsWhole /\ RefusalKnows /\ RefusedLeavesNothing
    BY DEF AccountsInit, PageKnows, WelcomedIsWhole, RefusalKnows, RefusedLeavesNothing, Idle
  <2> QED
    BY <2>1, <2>2, AccountsInitType DEF AccountsInv
<1>2. AccountsInv /\ [AccountsNext]_accountVars => AccountsInv'
  BY AccountsTypeStep, RequestKnowsStep, PageKnowsStep, RefusalKnowsStep,
     GroupKnowsStep DEF AccountsInv
<1> QED
  BY <1>1, <1>2, PTL DEF AccountsSpec

\* Every variable of the accounts keeps its type (AccountsTypeOK).
THEOREM AccountsTypeCorrect == AccountsSpec => []AccountsTypeOK
<1>1. AccountsInv => AccountsTypeOK
  BY DEF AccountsInv
<1> QED
  BY <1>1, AccountsInvariant, PTL

\* A visitor who was welcomed has a whole workspace, for any number of
\* visitors, requests and slugs: no request undoes what another one made
\* (signup/route.ts).
THEOREM WelcomesAreTrue == AccountsSpec => []WelcomedIsWhole
<1>1. AccountsInv => WelcomedIsWhole
  BY DEF AccountsInv
<1> QED
  BY <1>1, AccountsInvariant, PTL

\* Whoever was refused can try again: nothing is left of the account or of a
\* tenant, but for the named failures (signup/route.ts, admin/users/route.ts).
THEOREM RefusalsAreClean == AccountsSpec => []RefusedLeavesNothing
<1>1. AccountsInv => RefusedLeavesNothing
  BY DEF AccountsInv
<1> QED
  BY <1>1, AccountsInvariant, PTL

\* Removals of super admins that do not overlap leave one of them
\* (admin/roles/[role]/members/[userId]/route.ts).
THEOREM OneAdminRemains == AccountsSpec => []AdminRemains
<1>1. AccountsInv => AdminRemains
  BY DEF AccountsInv, GroupKnows, AdminRemains
<1> QED
  BY <1>1, AccountsInvariant, PTL

(***************************************************************************)
(* KeycloakClient                                                          *)
(***************************************************************************)

(* A copy that nobody has overtaken is the client as it is, and a save that   *)
(* overlaps with no other one is for the path saved last, which the row has,  *)
(* unless it was cleared.                                                     *)
CopyKnows ==
  /\ \A w \in Hands : copy[w].step = "put" => copy[w].read \in Client
  /\ \A w \in Hands : copy[w].step = "put" /\ w \notin overtaken => copy[w].read = client
  /\ crossed \/ \A e, f \in Editors : copy[e].step # "free" /\ copy[f].step # "free" => e = f
  /\ crossed \/ \A e \in Editors : copy[e].step # "free" => copy[e].path = sent
  /\ config \in {sent, BlankPath}

ClientInv == ClientTypeOK /\ CopyKnows /\ ClientKeepsBoth

-----------------------------------------------------------------------------
\* A write changes the field it is about, and takes the other as read.
LEMMA ChangedIsClient ==
  ASSUME ClientTypeOK, NEW w \in Hands, NEW c \in Client
  PROVE  /\ Changed(w, c) \in Client
         /\ w \in Hosts => Changed(w, c).hosts = c.hosts \cup {w} /\ Changed(w, c).path = c.path
         /\ w \in Editors => Changed(w, c).hosts = c.hosts /\ Changed(w, c).path = copy[w].path
BY ClientAssumption DEF Changed, Client, ClientTypeOK, Copy

\* Every step of a registration keeps the types.
LEMMA ClientTypeStep ==
  ASSUME ClientTypeOK, CopyKnows, ClientNext \/ UNCHANGED clientVars
  PROVE  ClientTypeOK'
<1> USE ClientAssumption DEF marks
<1>1. ASSUME NEW h \in Hosts, Provisioning(h) PROVE ClientTypeOK'
  BY <1>1, ChangedIsClient DEF Provisioning, Starts, ClientTypeOK, Copy, Hands
<1>2. ASSUME NEW e \in Editors, NEW path \in Paths, SavePath(e, path) PROVE ClientTypeOK'
  <2>1. [step |-> "get", read |-> NoCopy, path |-> path] \in Copy
    BY DEF Copy
  <2>2. copy' \in [Hands -> Copy]
    BY <1>2, <2>1 DEF SavePath, Starts, ClientTypeOK
  <2>3. saves' \in 0..MaxSaves
    <3>1. saves \in 0..MaxSaves /\ saves < MaxSaves /\ saves' = saves + 1
      BY <1>2 DEF SavePath, Starts, ClientTypeOK
    <3>2. MaxSaves \in Nat
      OBVIOUS
    <3> HIDE ClientAssumption
    <3> QED
      BY <3>1, <3>2
  <2>4. crossed' \in BOOLEAN
    BY <1>2, Zenon DEF SavePath, ClientTypeOK
  <2> QED
    BY <1>2, <2>2, <2>3, <2>4 DEF SavePath, ClientTypeOK
<1>3. ASSUME NEW w \in Hands, GetClient(w) PROVE ClientTypeOK'
  BY <1>3, ChangedIsClient DEF GetClient, ClientTypeOK, Copy, Hands
<1>4. ASSUME NEW w \in Hands, UpToDate(w) PROVE ClientTypeOK'
  BY <1>4, ChangedIsClient DEF UpToDate, Ends, ClientTypeOK, Copy, Free
<1>5. ASSUME NEW w \in Hands, PutClient(w) PROVE ClientTypeOK'
  <2>1. client' \in Client
    BY <1>5, ChangedIsClient DEF PutClient, CopyKnows
  <2>2. Free \in Copy
    BY DEF Free, Copy
  <2>3. copy' \in [Hands -> Copy] /\ overtaken' \in SUBSET Hands
    BY <1>5, <2>2 DEF PutClient, Written, Ends, ClientTypeOK
  <2>4. lost' \in SUBSET Hosts
    BY <1>5 DEF PutClient, Written, ClientTypeOK, Client
  <2>5. registered' \in SUBSET Hosts /\ reportedLate' \in BOOLEAN
    BY <1>5 DEF PutClient, Written, HostDone, HandFailed, ClientTypeOK
  <2> QED
    BY <1>5, <2>1, <2>3, <2>4, <2>5 DEF PutClient, Written, ClientTypeOK
<1>6. ASSUME NEW w \in Hands, CallFails(w) PROVE ClientTypeOK'
  BY <1>6, ChangedIsClient DEF CallFails, Ends, HandFailed, ClientTypeOK, Copy, Free
<1>7. ASSUME UNCHANGED clientVars PROVE ClientTypeOK'
  BY <1>7 DEF clientVars, ClientTypeOK
<1>8. ASSUME NEW e \in Editors, ClearPath(e) PROVE ClientTypeOK'
  BY <1>8 DEF ClearPath, ClientTypeOK
<1> QED
  BY <1>1, <1>2, <1>3, <1>4, <1>5, <1>6, <1>7, <1>8 DEF ClientNext

\* A copy that nobody overtook is the client as it is.
LEMMA CopyKnowsStep ==
  ASSUME ClientTypeOK, ClientTypeOK', CopyKnows, ClientNext \/ UNCHANGED clientVars
  PROVE  CopyKnows'
<1> USE ClientAssumption DEF marks
<1>1. ASSUME NEW h \in Hosts, Provisioning(h) PROVE CopyKnows'
  BY <1>1, ChangedIsClient DEF Provisioning, Starts, CopyKnows
<1>2. ASSUME NEW e \in Editors, NEW path \in Paths, SavePath(e, path) PROVE CopyKnows'
  BY <1>2, ChangedIsClient DEF SavePath, Starts, ClientTypeOK, Hands, CopyKnows
<1>3. ASSUME NEW w \in Hands, GetClient(w) PROVE CopyKnows'
  BY <1>3, ChangedIsClient DEF GetClient, ClientTypeOK, Hands, CopyKnows
<1>4. ASSUME NEW w \in Hands, UpToDate(w) PROVE CopyKnows'
  BY <1>4, ChangedIsClient DEF UpToDate, Ends, Free, CopyKnows
<1>5. ASSUME NEW w \in Hands, PutClient(w) PROVE CopyKnows'
  BY <1>5, ChangedIsClient DEF PutClient, Ends, Written, ClientTypeOK, Free, CopyKnows
<1>6. ASSUME NEW w \in Hands, CallFails(w) PROVE CopyKnows'
  BY <1>6, ChangedIsClient DEF CallFails, Ends, ClientTypeOK, Free, CopyKnows
<1>7. ASSUME UNCHANGED clientVars PROVE CopyKnows'
  BY <1>7 DEF clientVars, CopyKnows
<1>8. ASSUME NEW e \in Editors, ClearPath(e) PROVE CopyKnows'
  BY <1>8 DEF ClearPath, CopyKnows
<1> QED
  BY <1>1, <1>2, <1>3, <1>4, <1>5, <1>6, <1>7, <1>8 DEF ClientNext

\* So the write of such a copy loses nothing.
LEMMA ClientKeepsStep ==
  ASSUME ClientTypeOK, ClientTypeOK', CopyKnows, ClientKeepsBoth,
         ClientNext \/ UNCHANGED clientVars
  PROVE  ClientKeepsBoth'
<1> USE ClientAssumption DEF marks
<1>1. ASSUME NEW h \in Hosts, Provisioning(h) PROVE ClientKeepsBoth'
  BY <1>1, ChangedIsClient DEF Provisioning, Starts, ClientKeepsBoth
<1>2. ASSUME NEW e \in Editors, NEW path \in Paths, SavePath(e, path) PROVE ClientKeepsBoth'
  BY <1>2, ChangedIsClient DEF SavePath, Starts, ClientTypeOK, ClientKeepsBoth
<1>3. ASSUME NEW w \in Hands, GetClient(w) PROVE ClientKeepsBoth'
  BY <1>3, ChangedIsClient DEF GetClient, ClientTypeOK, Hands, ClientKeepsBoth
<1>4. ASSUME NEW w \in Hands, UpToDate(w) PROVE ClientKeepsBoth'
  BY <1>4, ChangedIsClient DEF UpToDate, Ends, ClientTypeOK, CopyKnows, ClientKeepsBoth
<1>5. ASSUME NEW w \in Hands, PutClient(w) PROVE ClientKeepsBoth'
  <2>1. copy[w].read \in Client
    BY <1>5 DEF PutClient, CopyKnows
  <2>2. w \in Hosts => w \in client'.hosts
    BY <1>5, <2>1, ChangedIsClient DEF PutClient
  <2>3. w \notin overtaken => client.hosts \subseteq client'.hosts
    BY <1>5, <2>1, ChangedIsClient DEF PutClient, CopyKnows, Hands
  <2>4. registered' \subseteq registered \cup ({w} \cap Hosts)
    BY <1>5 DEF PutClient, Written, HostDone, HandFailed
  <2>5. registered' \subseteq client'.hosts \cup lost'
    <3>1. CASE w \in overtaken
      <4>1. lost' = lost \cup (client.hosts \ client'.hosts)
        BY <1>5, <3>1 DEF PutClient, Written
      <4> QED
        BY <2>2, <2>4, <4>1 DEF ClientKeepsBoth
    <3>2. CASE w \notin overtaken
      <4>1. lost' = lost \ {w}
        BY <1>5, <3>2 DEF PutClient, Written
      <4> QED
        BY <2>2, <2>3, <2>4, <3>2, <4>1 DEF ClientKeepsBoth, ClientTypeOK
    <3> QED
      BY <3>1, <3>2
  <2>6. /\ \A v \in Hands : v # w => copy'[v] = copy[v]
        /\ copy'[w].step = "free"
    BY <1>5 DEF PutClient, Written, Ends, ClientTypeOK, Free
  <2>7. SUFFICES ASSUME \A e \in Editors : copy'[e].step = "free", ~crossed'
                 PROVE  client'.path = sent' \/ reportedLate'
    BY <1>5, <2>5 DEF PutClient, Written, CopyKnows, ClientKeepsBoth
  <2>11. ~crossed /\ w \notin overtaken
    BY <1>5, <2>7, Zenon DEF PutClient, Written
  <2>12. sent' = sent
    BY <1>5 DEF PutClient, Written
  <2>13. reportedLate => reportedLate'
    BY <1>5, Zenon DEF PutClient, Written, HostDone, HandFailed
  <2>8. ~crossed /\ w \notin overtaken /\ sent' = sent /\ (reportedLate => reportedLate')
    BY <2>11, <2>12, <2>13
  <2>9. CASE w \in Editors
    <3>1. client'.path = copy[w].path
      BY <1>5, <2>1, <2>9, ChangedIsClient DEF PutClient
    <3>2. copy[w].path = sent
      BY <1>5, <2>8, <2>9 DEF PutClient, CopyKnows
    <3> QED
      BY <2>8, <3>1, <3>2
  <2>10. CASE w \in Hosts
    <3>1. client'.path = client.path
      BY <1>5, <2>1, <2>8, <2>10, ChangedIsClient DEF PutClient, CopyKnows
    <3>2. \A e \in Editors : copy[e].step = "free"
      BY <2>6, <2>7, <2>10 DEF Hands
    <3> QED
      BY <2>8, <3>1, <3>2 DEF CopyKnows, ClientKeepsBoth
  <2> QED
    BY <2>9, <2>10 DEF Hands
<1>6. ASSUME NEW w \in Hands, CallFails(w) PROVE ClientKeepsBoth'
  <2>1. \A v \in Hands : v # w => copy'[v] = copy[v]
    BY <1>6 DEF CallFails, Ends, ClientTypeOK
  <2>2. w \in Editors => reportedLate'
    BY <1>6 DEF CallFails, HandFailed
  <2>3. reportedLate => reportedLate'
    BY <1>6 DEF CallFails, HandFailed
  <2>4. w \notin Editors => \A e \in Editors : copy'[e] = copy[e]
    BY <2>1 DEF Hands
  <2> QED
    BY <1>6, <2>2, <2>3, <2>4 DEF CallFails, HandFailed, ClientKeepsBoth
<1>7. ASSUME UNCHANGED clientVars PROVE ClientKeepsBoth'
  BY <1>7 DEF clientVars, ClientKeepsBoth
<1>8. ASSUME NEW e \in Editors, ClearPath(e) PROVE ClientKeepsBoth'
  BY <1>8 DEF ClearPath, CopyKnows, ClientKeepsBoth
<1> QED
  BY <1>1, <1>2, <1>3, <1>4, <1>5, <1>6, <1>7, <1>8 DEF ClientNext

\* The inductive invariant of the client.
LEMMA ClientInvariant == ClientSpec => []ClientInv
<1>1. ClientInit => ClientInv
  <2> SUFFICES ASSUME ClientInit PROVE ClientInv
    OBVIOUS
  <2>1. [hosts |-> {}, path |-> OldPath] \in Client /\ Free \in Copy
    BY ClientAssumption DEF Client, Copy, Free
  <2>2. copy \in [Hands -> Copy]
    BY <2>1 DEF ClientInit
  <2>3. saves \in 0..MaxSaves
    BY ClientAssumption DEF ClientInit
  <2>4. ClientTypeOK
    BY <2>1, <2>2, <2>3, ClientAssumption DEF ClientInit, ClientTypeOK
  <2> QED
    BY <2>4 DEF ClientInit, ClientInv, CopyKnows, ClientKeepsBoth, Free, Hands
<1>2. ClientInv /\ [ClientNext]_clientVars => ClientInv'
  BY ClientTypeStep, CopyKnowsStep, ClientKeepsStep DEF ClientInv
<1> QED
  BY <1>1, <1>2, PTL DEF ClientSpec

\* Every variable of the Keycloak client keeps its type (ClientTypeOK).
THEOREM ClientTypeCorrect == ClientSpec => []ClientTypeOK
<1>1. ClientInv => ClientTypeOK
  BY DEF ClientInv
<1> QED
  BY <1>1, ClientInvariant, PTL

\* For any number of hosts, editors and paths: what was put into the client is lost
\* only to a writer with an older copy or to overlapping saves, and a path that is
\* cleared in the console stays in the client (keycloak-sync.ts,
\* keycloak-admin.ts, connected-apps/[id]/route.ts).
THEOREM RegistrationsStay == ClientSpec => []ClientKeepsBoth
<1>1. ClientInv => ClientKeepsBoth
  BY DEF ClientInv
<1> QED
  BY <1>1, ClientInvariant, PTL

(***************************************************************************)
(* TenantWizard                                                            *)
(***************************************************************************)

(* A creation has the row that its step says, the wizard asks for a slug only *)
(* while it waits, and the tenant that it goes on with was committed and      *)
(* queued.                                                                    *)
WizardKnows ==
  /\ \A s \in NewSlugs :
       /\ creation[s] \in {"enqueue", "record"} => made[s] = "row"
       /\ creation[s] = "log" => made[s] \in {"queued", "failed"}
  /\ wizard.asked # Unset => wizard.waits = "create"
  /\ wizard.tenant # Unset => made[wizard.tenant] \in {"queued", "failed"}
  /\ wizard.waits \in {"brand", "checkout"} => wizard.step \in {"branding", "billing"}

(* Invitations went to a tenant, which has an admin or lost its invitation    *)
(* once they are answered.                                                    *)
BatchKnows ==
  \A b \in Batches :
    /\ batch[b].step # "new" => wizard.tenant # Unset /\ batch[b].to # Unset
    /\ batch[b].step # "new" /\ ~batch[b].admin => batch[b].to \in administered \cup excused

WizardInv == WizardTypeOK /\ WizardKnows /\ BatchKnows /\ NoneIsHalfMade

-----------------------------------------------------------------------------
\* Every step of the wizard keeps the types.
LEMMA WizardTypeStep ==
  ASSUME WizardTypeOK, WizardKnows, BatchKnows, NoneIsHalfMade, WizardNext \/ UNCHANGED wizardVars
  PROVE  WizardTypeOK'
<1> USE WizardAssumption DEF wizardHistory
<1>1. ASSUME NEW s \in NewSlugs, CreateTenant(s) PROVE WizardTypeOK'
  BY <1>1 DEF CreateTenant, WizardTypeOK, Wizard, CreationSteps
<1>2. ASSUME NEW s \in NewSlugs, TakeSlug(s) PROVE WizardTypeOK'
  BY <1>2 DEF TakeSlug, WizardTypeOK
<1>3. ASSUME NEW s \in NewSlugs, InsertTenant(s) PROVE WizardTypeOK'
  BY <1>3 DEF InsertTenant, Creates, WizardTypeOK, CreationSteps
<1>4. ASSUME NEW s \in NewSlugs, QueueTenant(s) PROVE WizardTypeOK'
  BY <1>4 DEF QueueTenant, Creates, WizardTypeOK, CreationSteps
<1>5. ASSUME NEW s \in NewSlugs, QueueFails(s) PROVE WizardTypeOK'
  BY <1>5 DEF QueueFails, Creates, WizardTypeOK, CreationSteps
<1>6. ASSUME NEW s \in NewSlugs, RecordFailed(s) PROVE WizardTypeOK'
  BY <1>6 DEF RecordFailed, Creates, WizardTypeOK, CreationSteps
<1>7. ASSUME NEW s \in NewSlugs, TenantCreated(s) PROVE WizardTypeOK'
  BY <1>7 DEF TenantCreated, WizardSteps, WizardTypeOK, Wizard, CreationSteps
<1>8. ASSUME NEW s \in NewSlugs, CreationEnds(s) PROVE WizardTypeOK'
  BY <1>8 DEF CreationEnds, Released, WizardTypeOK, Wizard, CreationSteps, WizardKnows
<1>9. ASSUME StepBack PROVE WizardTypeOK'
  BY <1>9 DEF StepBack, WizardSteps, WizardTypeOK, Wizard
<1>10. ASSUME SkipInvites PROVE WizardTypeOK'
  BY <1>10 DEF SkipInvites, WizardSteps, WizardTypeOK, Wizard, NoneIsHalfMade
<1>11. ASSUME SaveColours PROVE WizardTypeOK'
  BY <1>11 DEF SaveColours, WizardTypeOK, Wizard
<1>12. ASSUME ColoursAnswered PROVE WizardTypeOK'
  BY <1>12 DEF ColoursAnswered, WizardSteps, WizardTypeOK, Wizard
<1>13. ASSUME ChooseUnpaid PROVE WizardTypeOK'
  BY <1>13 DEF ChooseUnpaid, WizardSteps, WizardTypeOK, Wizard
<1>14. ASSUME StartPayment PROVE WizardTypeOK'
  BY <1>14 DEF StartPayment, WizardTypeOK, Wizard
<1>15. ASSUME CheckoutAnswered PROVE WizardTypeOK'
  BY <1>15 DEF CheckoutAnswered, WizardSteps, WizardTypeOK, Wizard
<1>16. ASSUME NEW b \in Batches, SendInvites(b) PROVE WizardTypeOK'
  BY <1>16 DEF SendInvites, WizardTypeOK, Wizard, Batch
<1>17. ASSUME NEW b \in Batches, InviteAdmin(b) PROVE WizardTypeOK'
  <2>1. [batch[b] EXCEPT !.admin = FALSE] \in Batch
    BY DEF WizardTypeOK, Batch
  <2>2. batch' \in [Batches -> Batch]
    BY <1>17, <2>1 DEF InviteAdmin, WizardTypeOK
  <2>3. batch[b].to \in NewSlugs
    BY <1>17 DEF InviteAdmin, WizardTypeOK, Batch, BatchKnows
  <2> QED
    BY <1>17, <2>2, <2>3 DEF InviteAdmin, WizardTypeOK
<1>18. ASSUME NEW b \in Batches, InviteRest(b) PROVE WizardTypeOK'
  <2>1. [batch[b] EXCEPT !.rest = FALSE] \in Batch
    BY DEF WizardTypeOK, Batch
  <2>2. batch' \in [Batches -> Batch]
    BY <1>18, <2>1 DEF InviteRest, WizardTypeOK
  <2>3. batch[b].to \in NewSlugs
    BY <1>18 DEF InviteRest, WizardTypeOK, Batch, BatchKnows
  <2> QED
    BY <1>18, <2>2, <2>3 DEF InviteRest, WizardTypeOK
<1>19. ASSUME NEW b \in Batches, InvitesOver(b) PROVE WizardTypeOK'
  BY <1>19 DEF InvitesOver, WizardSteps, WizardTypeOK, Wizard, Batch, BatchKnows
<1>20. ASSUME CreationUnheard PROVE WizardTypeOK'
  BY <1>20 DEF CreationUnheard, Released, WizardTypeOK, Wizard
<1>21. ASSUME UNCHANGED wizardVars PROVE WizardTypeOK'
  BY <1>21 DEF wizardVars, WizardTypeOK
<1> QED
  BY <1>1, <1>2, <1>3, <1>4, <1>5, <1>6, <1>7, <1>8, <1>9, <1>10, <1>11, <1>12, <1>13, <1>14,
     <1>15, <1>16, <1>17, <1>18, <1>19, <1>20, <1>21 DEF WizardNext

\* The wizard goes on only with a tenant that was committed and queued.
LEMMA WizardKnowsStep ==
  ASSUME WizardTypeOK, WizardTypeOK', WizardKnows, BatchKnows, NoneIsHalfMade,
         WizardNext \/ UNCHANGED wizardVars
  PROVE  WizardKnows'
<1> USE WizardAssumption DEF wizardHistory
<1>1. ASSUME NEW s \in NewSlugs, CreateTenant(s) PROVE WizardKnows'
  BY <1>1 DEF CreateTenant, WizardKnows
<1>2. ASSUME NEW s \in NewSlugs, TakeSlug(s) PROVE WizardKnows'
  BY <1>2 DEF TakeSlug, WizardKnows
<1>3. ASSUME NEW s \in NewSlugs, InsertTenant(s) PROVE WizardKnows'
  BY <1>3 DEF InsertTenant, Creates, WizardTypeOK, WizardKnows
<1>4. ASSUME NEW s \in NewSlugs, QueueTenant(s) PROVE WizardKnows'
  BY <1>4 DEF QueueTenant, Creates, WizardTypeOK, WizardKnows
<1>5. ASSUME NEW s \in NewSlugs, QueueFails(s) PROVE WizardKnows'
  BY <1>5 DEF QueueFails, Creates, WizardKnows
<1>6. ASSUME NEW s \in NewSlugs, RecordFailed(s) PROVE WizardKnows'
  BY <1>6 DEF RecordFailed, Creates, WizardTypeOK, WizardKnows
<1>7. ASSUME NEW s \in NewSlugs, TenantCreated(s) PROVE WizardKnows'
  BY <1>7 DEF TenantCreated, WizardKnows
<1>8. ASSUME NEW s \in NewSlugs, CreationEnds(s) PROVE WizardKnows'
  BY <1>8 DEF CreationEnds, Released, WizardKnows
<1>9. ASSUME StepBack PROVE WizardKnows'
  BY <1>9 DEF StepBack, WizardKnows
<1>10. ASSUME SkipInvites PROVE WizardKnows'
  BY <1>10 DEF SkipInvites, WizardKnows
<1>11. ASSUME SaveColours PROVE WizardKnows'
  BY <1>11 DEF SaveColours, WizardKnows
<1>12. ASSUME ColoursAnswered PROVE WizardKnows'
  BY <1>12 DEF ColoursAnswered, WizardKnows
<1>13. ASSUME ChooseUnpaid PROVE WizardKnows'
  BY <1>13 DEF ChooseUnpaid, WizardKnows
<1>14. ASSUME StartPayment PROVE WizardKnows'
  BY <1>14 DEF StartPayment, WizardKnows
<1>15. ASSUME CheckoutAnswered PROVE WizardKnows'
  BY <1>15 DEF CheckoutAnswered, WizardKnows
<1>16. ASSUME NEW b \in Batches, SendInvites(b) PROVE WizardKnows'
  BY <1>16 DEF SendInvites, WizardKnows
<1>17. ASSUME NEW b \in Batches, InviteAdmin(b) PROVE WizardKnows'
  BY <1>17 DEF InviteAdmin, WizardKnows
<1>18. ASSUME NEW b \in Batches, InviteRest(b) PROVE WizardKnows'
  BY <1>18 DEF InviteRest, WizardKnows
<1>19. ASSUME NEW b \in Batches, InvitesOver(b) PROVE WizardKnows'
  BY <1>19 DEF InvitesOver, WizardKnows
<1>20. ASSUME CreationUnheard PROVE WizardKnows'
  BY <1>20 DEF CreationUnheard, Released, WizardKnows
<1>21. ASSUME UNCHANGED wizardVars PROVE WizardKnows'
  BY <1>21 DEF wizardVars, WizardKnows
<1> QED
  BY <1>1, <1>2, <1>3, <1>4, <1>5, <1>6, <1>7, <1>8, <1>9, <1>10, <1>11, <1>12, <1>13, <1>14,
     <1>15, <1>16, <1>17, <1>18, <1>19, <1>20, <1>21 DEF WizardNext

\* Invitations that were answered leave an admin or an excuse.
LEMMA BatchKnowsStep ==
  ASSUME WizardTypeOK, WizardTypeOK', WizardKnows, BatchKnows, NoneIsHalfMade,
         WizardNext \/ UNCHANGED wizardVars
  PROVE  BatchKnows'
<1> USE WizardAssumption DEF wizardHistory
<1>1. ASSUME NEW s \in NewSlugs, CreateTenant(s) PROVE BatchKnows'
  BY <1>1 DEF CreateTenant, BatchKnows
<1>2. ASSUME NEW s \in NewSlugs, TakeSlug(s) PROVE BatchKnows'
  BY <1>2 DEF TakeSlug, BatchKnows
<1>3. ASSUME NEW s \in NewSlugs, InsertTenant(s) PROVE BatchKnows'
  BY <1>3 DEF InsertTenant, Creates, BatchKnows
<1>4. ASSUME NEW s \in NewSlugs, QueueTenant(s) PROVE BatchKnows'
  BY <1>4 DEF QueueTenant, Creates, BatchKnows
<1>5. ASSUME NEW s \in NewSlugs, QueueFails(s) PROVE BatchKnows'
  BY <1>5 DEF QueueFails, Creates, BatchKnows
<1>6. ASSUME NEW s \in NewSlugs, RecordFailed(s) PROVE BatchKnows'
  BY <1>6 DEF RecordFailed, Creates, BatchKnows
<1>7. ASSUME NEW s \in NewSlugs, TenantCreated(s) PROVE BatchKnows'
  BY <1>7 DEF TenantCreated, WizardKnows, BatchKnows
<1>8. ASSUME NEW s \in NewSlugs, CreationEnds(s) PROVE BatchKnows'
  BY <1>8 DEF CreationEnds, Released, BatchKnows
<1>9. ASSUME StepBack PROVE BatchKnows'
  BY <1>9 DEF StepBack, BatchKnows
<1>10. ASSUME SkipInvites PROVE BatchKnows'
  BY <1>10 DEF SkipInvites, BatchKnows
<1>11. ASSUME SaveColours PROVE BatchKnows'
  BY <1>11 DEF SaveColours, BatchKnows
<1>12. ASSUME ColoursAnswered PROVE BatchKnows'
  BY <1>12 DEF ColoursAnswered, BatchKnows
<1>13. ASSUME ChooseUnpaid PROVE BatchKnows'
  BY <1>13 DEF ChooseUnpaid, BatchKnows
<1>14. ASSUME StartPayment PROVE BatchKnows'
  BY <1>14 DEF StartPayment, BatchKnows
<1>15. ASSUME CheckoutAnswered PROVE BatchKnows'
  BY <1>15 DEF CheckoutAnswered, BatchKnows
<1>16. ASSUME NEW b \in Batches, SendInvites(b) PROVE BatchKnows'
  BY <1>16 DEF SendInvites, BatchKnows, NoneIsHalfMade
<1>17. ASSUME NEW b \in Batches, InviteAdmin(b) PROVE BatchKnows'
  BY <1>17 DEF InviteAdmin, BatchKnows
<1>18. ASSUME NEW b \in Batches, InviteRest(b) PROVE BatchKnows'
  BY <1>18 DEF InviteRest, BatchKnows
<1>19. ASSUME NEW b \in Batches, InvitesOver(b) PROVE BatchKnows'
  BY <1>19 DEF InvitesOver, BatchKnows
<1>20. ASSUME CreationUnheard PROVE BatchKnows'
  BY <1>20 DEF CreationUnheard, Released, BatchKnows
<1>21. ASSUME UNCHANGED wizardVars PROVE BatchKnows'
  BY <1>21 DEF wizardVars, BatchKnows
<1> QED
  BY <1>1, <1>2, <1>3, <1>4, <1>5, <1>6, <1>7, <1>8, <1>9, <1>10, <1>11, <1>12, <1>13, <1>14,
     <1>15, <1>16, <1>17, <1>18, <1>19, <1>20, <1>21 DEF WizardNext

\* A tenant that the wizard leaves is whole, or excused.
LEMMA NoneIsHalfMadeStep ==
  ASSUME WizardTypeOK, WizardTypeOK', WizardKnows, BatchKnows, NoneIsHalfMade,
         WizardNext \/ UNCHANGED wizardVars
  PROVE  NoneIsHalfMade'
<1> USE WizardAssumption DEF wizardHistory
<1>1. ASSUME NEW s \in NewSlugs, CreateTenant(s) PROVE NoneIsHalfMade'
  BY <1>1 DEF CreateTenant, NoneIsHalfMade
<1>2. ASSUME NEW s \in NewSlugs, TakeSlug(s) PROVE NoneIsHalfMade'
  BY <1>2 DEF TakeSlug, NoneIsHalfMade
<1>3. ASSUME NEW s \in NewSlugs, InsertTenant(s) PROVE NoneIsHalfMade'
  BY <1>3 DEF InsertTenant, Creates, WizardTypeOK, NoneIsHalfMade
<1>4. ASSUME NEW s \in NewSlugs, QueueTenant(s) PROVE NoneIsHalfMade'
  BY <1>4 DEF QueueTenant, Creates, WizardTypeOK, NoneIsHalfMade
<1>5. ASSUME NEW s \in NewSlugs, QueueFails(s) PROVE NoneIsHalfMade'
  BY <1>5 DEF QueueFails, Creates, WizardKnows, NoneIsHalfMade
<1>6. ASSUME NEW s \in NewSlugs, RecordFailed(s) PROVE NoneIsHalfMade'
  BY <1>6 DEF RecordFailed, Creates, WizardTypeOK, NoneIsHalfMade
<1>7. ASSUME NEW s \in NewSlugs, TenantCreated(s) PROVE NoneIsHalfMade'
  BY <1>7 DEF TenantCreated, WizardKnows, NoneIsHalfMade
<1>8. ASSUME NEW s \in NewSlugs, CreationEnds(s) PROVE NoneIsHalfMade'
  BY <1>8 DEF CreationEnds, Released, NoneIsHalfMade
<1>9. ASSUME StepBack PROVE NoneIsHalfMade'
  BY <1>9 DEF StepBack, NoneIsHalfMade
<1>10. ASSUME SkipInvites PROVE NoneIsHalfMade'
  BY <1>10 DEF SkipInvites, NoneIsHalfMade
<1>11. ASSUME SaveColours PROVE NoneIsHalfMade'
  BY <1>11 DEF SaveColours, NoneIsHalfMade
<1>12. ASSUME ColoursAnswered PROVE NoneIsHalfMade'
  BY <1>12 DEF ColoursAnswered, WizardKnows, NoneIsHalfMade
<1>13. ASSUME ChooseUnpaid PROVE NoneIsHalfMade'
  BY <1>13 DEF ChooseUnpaid, NoneIsHalfMade
<1>14. ASSUME StartPayment PROVE NoneIsHalfMade'
  BY <1>14 DEF StartPayment, NoneIsHalfMade
<1>15. ASSUME CheckoutAnswered PROVE NoneIsHalfMade'
  BY <1>15 DEF CheckoutAnswered, WizardKnows, NoneIsHalfMade
<1>16. ASSUME NEW b \in Batches, SendInvites(b) PROVE NoneIsHalfMade'
  BY <1>16 DEF SendInvites, NoneIsHalfMade
<1>17. ASSUME NEW b \in Batches, InviteAdmin(b) PROVE NoneIsHalfMade'
  BY <1>17 DEF InviteAdmin, NoneIsHalfMade
<1>18. ASSUME NEW b \in Batches, InviteRest(b) PROVE NoneIsHalfMade'
  BY <1>18 DEF InviteRest, NoneIsHalfMade
<1>19. ASSUME NEW b \in Batches, InvitesOver(b) PROVE NoneIsHalfMade'
  BY <1>19 DEF InvitesOver, WizardKnows, BatchKnows, NoneIsHalfMade
<1>20. ASSUME CreationUnheard PROVE NoneIsHalfMade'
  BY <1>20 DEF CreationUnheard, Released, NoneIsHalfMade
<1>21. ASSUME UNCHANGED wizardVars PROVE NoneIsHalfMade'
  BY <1>21 DEF wizardVars, NoneIsHalfMade
<1> QED
  BY <1>1, <1>2, <1>3, <1>4, <1>5, <1>6, <1>7, <1>8, <1>9, <1>10, <1>11, <1>12, <1>13, <1>14,
     <1>15, <1>16, <1>17, <1>18, <1>19, <1>20, <1>21 DEF WizardNext

\* The inductive invariant of the wizard.
LEMMA WizardInvariant == WizardSpec => []WizardInv
<1>1. WizardInit => WizardInv
  <2> SUFFICES ASSUME WizardInit PROVE WizardInv
    OBVIOUS
  <2>1. WizardTypeOK
    BY DEF WizardInit, WizardTypeOK, Wizard, CreationSteps, Batch, WizardSteps
  <2>2. WizardKnows /\ BatchKnows /\ NoneIsHalfMade
    BY DEF WizardInit, WizardKnows, BatchKnows, NoneIsHalfMade
  <2> QED
    BY <2>1, <2>2 DEF WizardInv
<1>2. WizardInv /\ [WizardNext]_wizardVars => WizardInv'
  BY WizardTypeStep, WizardKnowsStep, BatchKnowsStep, NoneIsHalfMadeStep DEF WizardInv
<1> QED
  BY <1>1, <1>2, PTL DEF WizardSpec

\* Every variable of the wizard keeps its type (WizardTypeOK).
THEOREM WizardTypeCorrect == WizardSpec => []WizardTypeOK
<1>1. WizardInv => WizardTypeOK
  BY DEF WizardInv
<1> QED
  BY <1>1, WizardInvariant, PTL

\* For any number of slugs and invitations: the wizard leaves no tenant half made,
\* unless a request or an invitation was lost (onboarding-wizard.tsx,
\* tenants/route.ts).
THEOREM WizardsFinish == WizardSpec => []NoneIsHalfMade
<1>1. WizardInv => NoneIsHalfMade
  BY DEF WizardInv
<1> QED
  BY <1>1, WizardInvariant, PTL

(***************************************************************************)
(* Checkout                                                                *)
(***************************************************************************)

(* What a call knows: its tenant, and the customer it goes on with, which was *)
(* made for that tenant.                                                      *)
CallKnows ==
  /\ \A s \in Payers : \A k \in {billed[s], payer[s]} \cap Checkouts :
       k \in customers /\ checkout[k].of = s
  /\ paid \subseteq customers
  /\ \A c \in Checkouts :
       /\ checkout[c].step = "new" => checkout[c] = FreshCheckout
       /\ checkout[c].step # "new" => checkout[c].of \in Payers
       /\ checkout[c].step = "create" => checkout[c].customer = NoCustomer
       /\ checkout[c].step = "keep" => checkout[c].customer = c
       /\ checkout[c].step \in {"session", "pay"} => checkout[c].customer # NoCustomer
       /\ checkout[c].customer # NoCustomer =>
            /\ checkout[c].customer \in customers
            /\ checkout[checkout[c].customer].of = checkout[c].of
       /\ c \in customers => checkout[c].step \notin {"new", "create"}

(* The calls that go on with a customer, which they need not keep any more.   *)
Holders(s) == {c \in Checkouts : /\ checkout[c].of = s /\ checkout[c].customer # NoCustomer
                                /\ checkout[c].step # "keep"}

(* A tenant of which no customer was lost has one that all its calls go on    *)
(* with: the one on its row, or the one that is put there with the payment.   *)
OneCustomer(s) ==
  /\ \A c, d \in Making(s) : c = d
  /\ \A c \in Making(s) : Holders(s) = {} /\ (checkout[c].row = NoRow => billed[s] = NoRow)
  /\ \A c \in Holders(s) :
       /\ billed[s] \in {NoRow, checkout[c].customer}
       /\ billed[s] = NoRow => checkout[checkout[c].customer].row = NoRow
  /\ \A c, d \in Holders(s) : checkout[c].customer = checkout[d].customer
  /\ \A k \in paid : checkout[k].of = s => \E c \in Holders(s) : checkout[c].customer = k
  /\ payer[s] # NoCustomer => payer[s] \in paid /\ checkout[payer[s]].of = s
  /\ s \in told => payer[s] # NoCustomer /\ billed[s] # NoRow

CustomerKnows == \A s \in Payers \ unkept : OneCustomer(s)

CheckoutInv == CheckoutTypeOK /\ CallKnows /\ CustomerKnows

-----------------------------------------------------------------------------
\* Every step of a checkout keeps the types.
LEMMA CheckoutTypeStep ==
  ASSUME CheckoutTypeOK, CallKnows, CheckoutNext \/ UNCHANGED checkoutVars
  PROVE  CheckoutTypeOK'
<1> USE CheckoutAssumption
<1>1. ASSUME NEW c \in Checkouts, NEW s \in Payers, StartCheckout(c, s) PROVE CheckoutTypeOK'
  BY <1>1 DEF StartCheckout, CheckoutTypeOK, CheckoutCall, CheckoutSteps
<1>2. ASSUME NEW c \in Checkouts, CreateCustomer(c) PROVE CheckoutTypeOK'
  <2>1. \A step \in {"session", "keep"} : [checkout[c] EXCEPT !.customer = c, !.step = step] \in CheckoutCall
    BY ZenonT(30) DEF CheckoutTypeOK, CheckoutCall, CheckoutSteps
  <2>2. checkout' \in [Checkouts -> CheckoutCall]
    BY <1>2, <2>1 DEF CreateCustomer, CheckoutTypeOK
  <2> QED
    BY <1>2, <2>2 DEF CreateCustomer, CheckoutTypeOK
<1>3. ASSUME NEW c \in Checkouts, KeepCustomer(c) PROVE CheckoutTypeOK'
  BY <1>3 DEF KeepCustomer, CheckoutTypeOK, CheckoutCall, CheckoutSteps, RowCustomer, CallKnows
<1>4. ASSUME NEW c \in Checkouts, OpenSession(c) PROVE CheckoutTypeOK'
  BY <1>4 DEF OpenSession, CheckoutTypeOK, CheckoutCall, CheckoutSteps
<1>5. ASSUME NEW c \in Checkouts, AbandonCheckout(c) PROVE CheckoutTypeOK'
  BY <1>5 DEF AbandonCheckout, CheckoutTypeOK, CheckoutCall, CheckoutSteps, CallKnows
<1>6. ASSUME NEW c \in Checkouts, Pay(c) PROVE CheckoutTypeOK'
  BY <1>6 DEF Pay, CheckoutTypeOK, CheckoutCall, CheckoutSteps, CallKnows
<1>7. ASSUME NEW s \in Payers, NEW k \in Checkouts, HandleSubscription(s, k) PROVE CheckoutTypeOK'
  BY <1>7 DEF HandleSubscription, Handled, CheckoutTypeOK, RowCustomer
<1>8. ASSUME NEW s \in Payers, GrantPlan(s) PROVE CheckoutTypeOK'
  BY <1>8 DEF GrantPlan, CheckoutTypeOK, RowCustomer
<1>9. ASSUME UNCHANGED checkoutVars PROVE CheckoutTypeOK'
  BY <1>9 DEF checkoutVars, CheckoutTypeOK
<1> QED
  BY <1>1, <1>2, <1>3, <1>4, <1>5, <1>6, <1>7, <1>8, <1>9 DEF CheckoutNext

\* A call goes on with a customer that was made for its tenant.
LEMMA CallKnowsStep ==
  ASSUME CheckoutTypeOK, CheckoutTypeOK', CallKnows, CheckoutNext \/ UNCHANGED checkoutVars
  PROVE  CallKnows'
<1> USE CheckoutAssumption
<1>1. ASSUME NEW c \in Checkouts, NEW s \in Payers, StartCheckout(c, s) PROVE CallKnows'
  BY <1>1 DEF StartCheckout, CallKnows
<1>2. ASSUME NEW c \in Checkouts, CreateCustomer(c) PROVE CallKnows'
  BY <1>2 DEF CreateCustomer, CheckoutTypeOK, CallKnows
<1>3. ASSUME NEW c \in Checkouts, KeepCustomer(c) PROVE CallKnows'
  BY <1>3 DEF KeepCustomer, CallKnows
<1>4. ASSUME NEW c \in Checkouts, OpenSession(c) PROVE CallKnows'
  BY <1>4 DEF OpenSession, CallKnows
<1>5. ASSUME NEW c \in Checkouts, AbandonCheckout(c) PROVE CallKnows'
  BY <1>5 DEF AbandonCheckout, CallKnows
<1>6. ASSUME NEW c \in Checkouts, Pay(c) PROVE CallKnows'
  BY <1>6 DEF Pay, CallKnows
<1>7. ASSUME NEW s \in Payers, NEW k \in Checkouts, HandleSubscription(s, k) PROVE CallKnows'
  BY <1>7 DEF HandleSubscription, Handled, CallKnows
<1>8. ASSUME NEW s \in Payers, GrantPlan(s) PROVE CallKnows'
  BY <1>8 DEF GrantPlan, CallKnows
<1>9. ASSUME UNCHANGED checkoutVars PROVE CallKnows'
  BY <1>9 DEF checkoutVars, CallKnows
<1> QED
  BY <1>1, <1>2, <1>3, <1>4, <1>5, <1>6, <1>7, <1>8, <1>9 DEF CheckoutNext

\* The calls of a tenant go on with one customer, unless it was not kept.
LEMMA CustomerKnowsStep ==
  ASSUME CheckoutTypeOK, CheckoutTypeOK', CallKnows, CustomerKnows,
         CheckoutNext \/ UNCHANGED checkoutVars
  PROVE  CustomerKnows'
<1> USE CheckoutAssumption
<1>1. ASSUME NEW c \in Checkouts, NEW s \in Payers, StartCheckout(c, s) PROVE CustomerKnows'
  BY <1>1 DEF StartCheckout, CheckoutTypeOK, FreshCheckout, CallKnows, CustomerKnows, OneCustomer, Holders,
     Making, MadeFor, Unkeepable
<1>2. ASSUME NEW c \in Checkouts, CreateCustomer(c) PROVE CustomerKnows'
  BY <1>2 DEF CreateCustomer, CustomerKnows, OneCustomer, Holders, Making
<1>3. ASSUME NEW c \in Checkouts, KeepCustomer(c) PROVE CustomerKnows'
  BY <1>3 DEF KeepCustomer, CheckoutTypeOK, CallKnows, CustomerKnows, OneCustomer, Holders, Making
<1>4. ASSUME NEW c \in Checkouts, OpenSession(c) PROVE CustomerKnows'
  BY <1>4 DEF OpenSession, CustomerKnows, OneCustomer, Holders, Making
<1>5. ASSUME NEW c \in Checkouts, AbandonCheckout(c) PROVE CustomerKnows'
  BY <1>5 DEF AbandonCheckout, CustomerKnows, OneCustomer, Holders, Making
<1>6. ASSUME NEW c \in Checkouts, Pay(c) PROVE CustomerKnows'
  <2> DEFINE k == checkout[c].customer
  <2>1. c \in Holders(checkout[c].of) /\ k \in Checkouts /\ checkout[k].of = checkout[c].of
    BY <1>6 DEF Pay, CheckoutTypeOK, CheckoutCall, CallKnows, Holders
  <2>2. \A s \in Payers : Making(s)' = Making(s) /\ Holders(s)' = Holders(s)
    BY <1>6 DEF Pay, CheckoutTypeOK, Making, Holders
  <2>3. /\ \A d \in Checkouts : /\ checkout'[d].of = checkout[d].of /\ checkout'[d].row = checkout[d].row
                               /\ checkout'[d].customer = checkout[d].customer
        /\ paid' = paid \cup {k} /\ payer' = [payer EXCEPT ![checkout[c].of] = k]
        /\ told' = told \ {checkout[c].of} /\ UNCHANGED <<billed, unkept>>
    BY <1>6 DEF Pay, CheckoutTypeOK
  <2> HIDE DEF k
  <2>4. \A s \in Payers : \A d \in Holders(s) \cup Making(s) : d \in Checkouts
    BY DEF Holders, Making
  <2>5. \A s \in Payers : \A d \in Holders(s) : checkout[d].customer \in Checkouts
    BY DEF Holders, CheckoutTypeOK, CheckoutCall
  <2>6. ASSUME NEW s \in Payers \ unkept, NEW j \in paid', checkout'[j].of = s
        PROVE  \E d \in Holders(s)' : checkout'[d].customer = j
    <3>1. CASE j = k
      <4>1. checkout[c].of = s /\ c \in Holders(s)'
        BY <2>1, <2>2, <2>3, <2>6, <3>1
      <4> QED
        BY <2>3, <3>1, <4>1 DEF k
    <3>2. CASE j \in paid
      <4>1. j \in Checkouts /\ checkout[j].of = s
        BY <2>3, <2>6, <3>2 DEF CheckoutTypeOK
      <4>2. PICK d \in Holders(s) : checkout[d].customer = j
        BY <3>2, <4>1 DEF CustomerKnows, OneCustomer
      <4> QED
        BY <2>2, <2>3, <2>4, <4>2
    <3> QED
      BY <2>3, <2>6, <3>1, <3>2
  <2>7. ASSUME NEW s \in Payers \ unkept
        PROVE  /\ payer'[s] # NoCustomer => payer'[s] \in paid' /\ checkout'[payer'[s]].of = s
               /\ s \in told' => payer'[s] # NoCustomer /\ billed'[s] # NoRow
    <3>1. CASE s = checkout[c].of
      BY <2>1, <2>3, <3>1 DEF CheckoutTypeOK
    <3>2. CASE s # checkout[c].of
      BY <2>3, <3>2 DEF CheckoutTypeOK, CustomerKnows, OneCustomer
    <3> QED
      BY <3>1, <3>2
  <2>8. ASSUME NEW s \in Payers \ unkept
        PROVE  /\ \A d, e \in Making(s)' : d = e
               /\ \A d \in Making(s)' :
                    Holders(s)' = {} /\ (checkout'[d].row = NoRow => billed'[s] = NoRow)
    BY <2>2, <2>3, <2>4 DEF CustomerKnows, OneCustomer
  <2>9. ASSUME NEW s \in Payers \ unkept, NEW d \in Holders(s)'
        PROVE  /\ billed'[s] \in {NoRow, checkout'[d].customer}
               /\ billed'[s] = NoRow => checkout'[checkout'[d].customer].row = NoRow
               /\ \A e \in Holders(s)' : checkout'[d].customer = checkout'[e].customer
    <3>1. d \in Holders(s) /\ d \in Checkouts /\ checkout[d].customer \in Checkouts
      BY <2>2, <2>4, <2>5, <2>9
    <3>2. \A e \in Holders(s)' : e \in Holders(s) /\ e \in Checkouts
      BY <2>2, <2>4
    <3>3. /\ billed[s] \in {NoRow, checkout[d].customer}
          /\ billed[s] = NoRow => checkout[checkout[d].customer].row = NoRow
          /\ \A e \in Holders(s) : checkout[d].customer = checkout[e].customer
      BY <2>3, <3>1 DEF CustomerKnows, OneCustomer
    <3>4. /\ checkout'[d].customer = checkout[d].customer
          /\ checkout'[checkout[d].customer].row = checkout[checkout[d].customer].row
      BY <2>3, <3>1
    <3>5. \A e \in Holders(s)' : checkout'[d].customer = checkout'[e].customer
      BY <2>3, <3>2, <3>3, <3>4
    <3>6. billed' = billed
      BY <2>3
    <3> QED
      BY <3>3, <3>4, <3>5, <3>6
  <2>10. ASSUME NEW s \in Payers \ unkept PROVE OneCustomer(s)'
    BY <2>6, <2>7, <2>8, <2>9 DEF OneCustomer
  <2> QED
    BY <2>3, <2>10 DEF CustomerKnows
<1>7. ASSUME NEW s \in Payers, NEW k \in Checkouts, HandleSubscription(s, k) PROVE CustomerKnows'
  BY <1>7 DEF HandleSubscription, Handled, CheckoutTypeOK, CustomerKnows, OneCustomer, Holders, Making
<1>8. ASSUME NEW s \in Payers, GrantPlan(s) PROVE CustomerKnows'
  BY <1>8 DEF GrantPlan, CallKnows, CustomerKnows, OneCustomer, Holders, Making, MadeFor, Unkeepable
<1>9. ASSUME UNCHANGED checkoutVars PROVE CustomerKnows'
  BY <1>9 DEF checkoutVars, CustomerKnows, OneCustomer, Holders, Making
<1> QED
  BY <1>1, <1>2, <1>3, <1>4, <1>5, <1>6, <1>7, <1>8, <1>9 DEF CheckoutNext

\* The inductive invariant of the checkout.
LEMMA CheckoutInvariant == CheckoutSpec => []CheckoutInv
<1>1. CheckoutInit => CheckoutInv
  <2> SUFFICES ASSUME CheckoutInit PROVE CheckoutInv
    OBVIOUS
  <2>1. FreshCheckout \in CheckoutCall
    BY DEF FreshCheckout, CheckoutCall, CheckoutSteps, RowCustomer
  <2>2. CheckoutTypeOK
    BY <2>1 DEF CheckoutInit, CheckoutTypeOK, RowCustomer
  <2>3. CallKnows /\ CustomerKnows
    BY CheckoutAssumption DEF CheckoutInit, CallKnows, CustomerKnows, OneCustomer, FreshCheckout, Making,
       Holders
  <2> QED
    BY <2>2, <2>3 DEF CheckoutInv
<1>2. CheckoutInv /\ [CheckoutNext]_checkoutVars => CheckoutInv'
  BY CheckoutTypeStep, CallKnowsStep, CustomerKnowsStep DEF CheckoutInv
<1> QED
  BY <1>1, <1>2, PTL DEF CheckoutSpec

\* Every variable of the checkout keeps its type (CheckoutTypeOK).
THEOREM CheckoutTypeCorrect == CheckoutSpec => []CheckoutTypeOK
<1>1. CheckoutInv => CheckoutTypeOK
  BY DEF CheckoutInv
<1> QED
  BY <1>1, CheckoutInvariant, PTL

\* For any number of tenants and calls: once the event of a payment is handled,
\* the portal opens the bills of the customer that paid, unless one was made and
\* not kept in time (billing/checkout and billing/portal).
THEOREM PayersSeeTheirBills == CheckoutSpec => []PortalShowsPayer
<1>1. CheckoutInv => PortalShowsPayer
  BY CheckoutAssumption DEF CheckoutInv, PortalShowsPayer, PortalOpens, CheckoutTypeOK,
     CustomerKnows, OneCustomer
<1> QED
  BY <1>1, CheckoutInvariant, PTL
============================================================================
