------------------------------ MODULE Navigation ------------------------------
(***************************************************************************)
(* One browser and the pages it is sent to.  A tenant's pages have a path on *)
(* the root host, /t/<slug>, and two hosts of their own, <slug>.<domain> and *)
(* admin.<slug>.<domain>.  The session holds on every host; the tenant_slug  *)
(* cookie, which binds the API calls of the root host to a tenant, on that   *)
(* host only.  All tabs share both.                                         *)
(*                                                                         *)
(* A step of a tab is one request with all that answers it: the middleware,  *)
(* the layouts around the page, and the page.  It is redirected or shown.    *)
(***************************************************************************)
EXTENDS Naturals

CONSTANTS
  Tabs, Workspaces, Accounts,
  Invitee, InvitedTo,  \* whom the browser's invitation link is for, and where to
  Staff,               \* accounts that are platform admins
  Nobody, Stale,       \* no session; cookies of one that cannot be read any more
  Nowhere,             \* no tenant
  MaxActs,             \* bound on what the visitor and others do
  MaxHops              \* bound on the redirects in a row

ASSUME NavigationAssumption ==
  /\ Invitee \in Accounts /\ InvitedTo \in Workspaces /\ Staff \subseteq Accounts
  /\ {Nobody, Stale} \cap Accounts = {} /\ Nobody # Stale /\ Nowhere \notin Workspaces
  /\ MaxActs \in Nat /\ MaxHops \in Nat /\ MaxHops > 4

VARIABLES
  session,   \* whose session the browser has
  cookie,    \* tenant_slug
  member,    \* the tenants each account is an ACTIVE member of
  standing,  \* the status of each tenant
  tab,       \* what each tab loads or shows, and for which tenant
  acted,     \* the tenant on which the last API call of a tab's page acted
  acts,
  crossed,   \* tabs whose tenant another tab or a change of members replaced (history)
  errand     \* tabs that follow the invitation (history)

browser == <<session, cookie>>
tenants == <<member, standing>>
navVars == <<browser, tenants, tab, acted, acts, crossed, errand>>

NavPages == {"home", "signin", "redirect", "tile", "panel", "console", "no-workspace", "suspended",
             "dashboard", "invite"}
\* slug is the tenant of a path or of a parameter; back is where the sign-in
\* page returns to.
Urls == [host : {"root", "tenant", "admin"}, of : Workspaces \cup {Nowhere}, page : NavPages,
         slug : Workspaces \cup {Nowhere}, back : {"none", "invite", "admin"}]

Address(host, s, page) == [host |-> host, of |-> s, page |-> page, slug |-> Nowhere, back |-> "none"]
Root(page) == Address("root", Nowhere, page)
On(u, page) == Address(u.host, u.of, page)  \* a relative redirect from u
Path(u, s, page) == [On(u, page) EXCEPT !.slug = s]

TabState == [step : {"loads", "shows"}, url : Urls, as : Workspaces \cup {Nowhere}, hops : 0..MaxHops]

NavTypeOK ==
  /\ session \in Accounts \cup {Nobody, Stale} /\ cookie \in Workspaces \cup {Nowhere}
  /\ member \in [Accounts -> SUBSET Workspaces]
  /\ standing \in [Workspaces -> {"active", "suspended", "deleted"}]
  /\ tab \in [Tabs -> TabState]
  /\ acted \in [Tabs -> Workspaces \cup {Nowhere}] /\ acts \in 0..MaxActs
  /\ crossed \in SUBSET Tabs /\ errand \in SUBSET Tabs

\* The invitee may be signed in already.
NavInit ==
  /\ session \in {Invitee, Nobody} /\ cookie = Nowhere
  /\ member \in [Accounts -> SUBSET Workspaces] /\ InvitedTo \notin member[Invitee]
  /\ standing = [s \in Workspaces |-> "active"]
  /\ tab = [t \in Tabs |-> [step |-> "shows", url |-> Root("home"), as |-> Nowhere, hops |-> 0]]
  /\ acted = [t \in Tabs |-> Nowhere] /\ acts = 0
  /\ crossed = {} /\ errand = {}

-------------------------------------------------------------------------------
(* How a request is read *)

SignedIn == session \in Accounts
Joined == IF SignedIn THEN member[session] ELSE {}
IsStaff  == session \in Staff

\* The tenant of the host, of the path, or else the cookie's.
TenantPath(u) == u.host = "root" /\ u.page \in {"tile", "panel"}
HeaderSlug(u) == IF u.host # "root" THEN u.of ELSE IF TenantPath(u) THEN u.slug ELSE cookie

\* getCurrentTenant: the tenant of the header, or any other of his own for a
\* visitor who is not a member of it.  A deleted tenant resolves to none.
Current(u) == IF HeaderSlug(u) \in Joined THEN {HeaderSlug(u)}
              ELSE IF Joined = {} THEN {Nowhere} ELSE Joined
Resolved(s) == IF s # Nowhere /\ standing[s] # "deleted" THEN s ELSE Nowhere

Public(u) == u.page \in {"signin", "redirect"} \/ (u.host = "root" /\ u.page = "home")

\* What is found at an address.  A tenant's hosts show its tree from their
\* root, and the admin host has nothing but the admin tree.
Served(u) ==
  CASE u.host = "tenant" /\ u.page = "home" -> "tile"
    [] u.host = "admin" /\ u.page = "home" -> "panel"
    [] u.host = "admin" /\ u.page = "tile" /\ u.slug # u.of -> "missing"
    [] u.host = "admin" /\ u.page \in {"no-workspace", "suspended", "dashboard", "invite"} -> "missing"
    [] OTHER -> u.page

Asks(t, pages) ==
  /\ tab[t].step = "loads" /\ tab[t].hops < MaxHops
  /\ SignedIn \/ Public(tab[t].url)
  /\ Served(tab[t].url) \in pages
Goes(t, u) ==
  /\ tab' = [tab EXCEPT ![t] = [tab[t] EXCEPT !.url = u, !.hops = tab[t].hops + 1]]
  /\ UNCHANGED <<acted, acts>>
Shows(t, s) ==
  /\ tab' = [tab EXCEPT ![t] = [tab[t] EXCEPT !.step = "shows", !.as = s, !.hops = 0]]
  /\ acted' = [acted EXCEPT ![t] = Nowhere] /\ UNCHANGED acts

\* Session cookies that cannot be read are cleared on public pages and bounces.
Heals == session' = (IF session = Stale THEN Nobody ELSE session)

-------------------------------------------------------------------------------
(* Requests that the middleware answers *)

Bounces(t, back) ==
  LET u == tab[t].url IN
  /\ tab[t].step = "loads" /\ tab[t].hops < MaxHops /\ ~SignedIn /\ ~Public(u)
  /\ Goes(t, [On(u, "signin") EXCEPT !.slug = IF TenantPath(u) THEN u.slug ELSE Nowhere, !.back = back])
  /\ Heals
  /\ UNCHANGED <<cookie, tenants, crossed, errand>>

\* Mutant of AskToSignIn: an invitation is bounced like any page.
AskAlike(t) == Bounces(t, "none")

AskToSignIn(t) == Bounces(t, IF tab[t].url.page = "invite" THEN "invite" ELSE "none")

\* A visitor who is signed in does not stay on the home page; /dashboard is
\* kept for old links.
Forward(t) ==
  LET u == tab[t].url IN
  /\ \/ Asks(t, {"home"}) /\ SignedIn /\ Goes(t, Root("redirect"))
     \/ Asks(t, {"dashboard"}) /\ Goes(t, IF u.host = "root" THEN Root("redirect") ELSE On(u, "panel"))
  /\ UNCHANGED <<browser, tenants, crossed, errand>>

\* Mutant of Remember: a cookie that is there is kept.
RememberFirst(t) ==
  LET u == tab[t].url IN
  /\ cookie' = IF TenantPath(u) /\ cookie = Nowhere THEN u.slug ELSE cookie
  /\ crossed' = (crossed \ {t}) \cup
       (IF cookie' = cookie THEN {} ELSE {o \in Tabs \ {t} : tab[o].url.host = "root"})

\* The tenant of a path is kept in the cookie, also for the calls of the pages
\* that other tabs show.
Remember(t) ==
  LET u == tab[t].url IN
  /\ cookie' = IF TenantPath(u) THEN u.slug ELSE cookie
  /\ crossed' = (crossed \ {t}) \cup
       (IF cookie' = cookie THEN {} ELSE {o \in Tabs \ {t} : tab[o].url.host = "root"})

-------------------------------------------------------------------------------
(* Requests that a page answers *)

\* The sign-in page goes by the tenant of the header, or else of its address.
SignInPage(t) ==
  LET u == tab[t].url IN
  /\ Asks(t, {"signin"})
  /\ Shows(t, IF HeaderSlug(u) # Nowhere THEN HeaderSlug(u) ELSE u.slug)
  /\ Heals
  /\ UNCHANGED <<cookie, tenants, crossed, errand>>

\* auth/redirect: to the tenant the sign-in was for, or else to one of his own.
AfterSignIn(t) ==
  LET u == tab[t].url
      host == IF u.back = "admin" THEN "admin" ELSE "tenant" IN
  /\ Asks(t, {"redirect"})
  /\ \/ ~SignedIn /\ Goes(t, On(u, "signin"))
     \/ IsStaff /\ Goes(t, On(u, "console"))
     \/ SignedIn /\ ~IsStaff /\ Joined = {} /\ Goes(t, On(u, "no-workspace"))
     \/ /\ ~IsStaff
        /\ \E s \in IF u.slug \in Joined THEN {u.slug} ELSE Joined : Goes(t, Address(host, s, "home"))
  /\ Heals
  /\ UNCHANGED <<cookie, tenants, crossed, errand>>

\* Mutant of AdminTree: platform admins are sent to the console of their host.
AdminTreeHere(t, s) ==
  LET u == tab[t].url
      away == IsStaff /\ u.host # "admin" IN
  \/ away /\ Goes(t, On(u, IF u.host = "root" THEN "console" ELSE "panel"))
  \/ ~away /\ Resolved(s) = Nowhere /\ Goes(t, On(u, "home"))
  \/ ~away /\ Resolved(s) # Nowhere /\ Shows(t, s)

\* admin/layout and the pages under it.
AdminTree(t, s) ==
  LET u == tab[t].url
      away == IsStaff /\ u.host # "admin" IN
  \/ away /\ Goes(t, Root("console"))
  \/ ~away /\ Resolved(s) = Nowhere /\ Goes(t, On(u, "home"))
  \/ ~away /\ Resolved(s) # Nowhere /\ Shows(t, s)

\* t/layout stands before every page of a tenant.
TenantPage(t) ==
  LET u == tab[t].url IN
  /\ Asks(t, {"tile", "panel"})
  /\ Remember(t)
  /\ \E s \in Current(u) :
       LET shut == s # Nowhere /\ standing[s] = "suspended" IN
       \/ shut /\ Goes(t, On(u, "suspended"))
       \/ ~shut /\ Joined = {} /\ Goes(t, On(u, "no-workspace"))
       \/ ~shut /\ Joined # {} /\ Served(u) = "tile" /\ Shows(t, Resolved(s))
       \/ ~shut /\ Joined # {} /\ Served(u) = "panel" /\ AdminTree(t, s)
  /\ UNCHANGED <<session, tenants, errand>>

ConsolePage(t) ==
  /\ Asks(t, {"console"})
  /\ IF IsStaff THEN Shows(t, Nowhere) ELSE Goes(t, On(tab[t].url, "home"))
  /\ UNCHANGED <<browser, tenants, crossed, errand>>

\* An invitation that was accepted is not shown again.
InvitePage(t) ==
  /\ Asks(t, {"invite"})
  /\ \/ InvitedTo \notin member[Invitee] /\ Shows(t, Nowhere) /\ UNCHANGED errand
     \/ /\ InvitedTo \in member[Invitee] /\ Goes(t, On(tab[t].url, "dashboard"))
        /\ errand' = errand \ {t}
  /\ UNCHANGED <<browser, tenants, crossed>>

PlainPage(t) ==
  /\ Asks(t, {"home", "no-workspace", "suspended", "missing"})
  /\ tab[t].url.page = "home" => ~SignedIn
  /\ Shows(t, Nowhere) /\ Heals
  /\ UNCHANGED <<cookie, tenants, crossed, errand>>

-------------------------------------------------------------------------------
(* What the visitor does on a page *)

Acts == acts < MaxActs /\ acts' = acts + 1
\* The redirects of other tabs are counted anew, as they may be led elsewhere.
Afresh == [o \in Tabs |-> [tab[o] EXCEPT !.hops = 0]]
Loads(t, u) ==
  /\ Acts /\ tab[t].step = "shows"
  /\ tab' = [Afresh EXCEPT ![t] = [tab[t] EXCEPT !.step = "loads", !.url = u, !.hops = 0]]
  /\ UNCHANGED acted

\* A link, a bookmark, or the address he types.
Open(t, u) ==
  /\ Loads(t, u)
  /\ errand' = IF u.page = "invite" THEN errand \cup {t} ELSE errand \ {t}
  /\ UNCHANGED <<browser, tenants, crossed>>

\* The form of the sign-in page, Keycloak, and the way back to the root host.
LogIn(t, a) ==
  LET u == tab[t].url IN
  /\ u.page = "signin" /\ session' = a
  /\ Loads(t, IF u.back = "invite" THEN Root("invite")
              ELSE [Root("redirect") EXCEPT !.slug = tab[t].as,
                                            !.back = IF u.host = "admin" THEN "admin" ELSE "none"])
  /\ crossed' = Tabs
  /\ UNCHANGED <<cookie, tenants, errand>>

\* keycloak-logout returns to the host it was called on; the page that refuses
\* an invitation to this account has it return to the invitation.
LogOut(t) ==
  LET u == tab[t].url IN
  /\ SignedIn /\ Served(u) \in {"tile", "panel", "console", "no-workspace", "invite"}
  /\ u.page = "invite" => session # Invitee
  /\ session' = Nobody
  /\ Loads(t, [On(u, "signin") EXCEPT !.back = IF u.page = "invite" THEN "invite" ELSE "none"])
  /\ crossed' = Tabs
  /\ UNCHANGED <<cookie, tenants, errand>>

\* Only the account that is invited can accept.
AcceptLink(t) ==
  LET u == tab[t].url IN
  /\ u.page = "invite" /\ session = Invitee
  /\ Loads(t, IF InvitedTo \in member[Invitee] THEN On(u, "dashboard") ELSE Path(u, InvitedTo, "tile"))
  /\ member' = [member EXCEPT ![Invitee] = @ \cup {InvitedTo}]
  /\ crossed' = Tabs /\ errand' = errand \ {t}
  /\ UNCHANGED <<browser, standing>>

DeclineLink(t) ==
  LET u == tab[t].url IN
  /\ u.page = "invite" /\ session = Invitee
  /\ Loads(t, On(u, "home"))
  /\ errand' = errand \ {t}
  /\ UNCHANGED <<browser, tenants, crossed>>

\* The workspace switcher: a path on the host that is shown.
SwitchWorkspace(t, s) ==
  /\ SignedIn /\ Served(tab[t].url) = "panel" /\ s \in member[session]
  /\ Loads(t, Path(tab[t].url, s, "tile"))
  /\ errand' = errand \ {t}
  /\ UNCHANGED <<browser, tenants, crossed>>

\* A call of the page to /api: getTenantFromRequest takes the header's tenant,
\* and refuses a visitor who is not a member of it.
CallApi(t) ==
  LET s == IF tab[t].url.host = "root" THEN cookie ELSE tab[t].url.of IN
  /\ tab[t].step = "shows" /\ Served(tab[t].url) = "panel"
  /\ acted' = [acted EXCEPT ![t] = IF s \in Joined /\ standing[s] = "active" THEN s ELSE Nowhere]
  /\ UNCHANGED <<browser, tenants, tab, acts, crossed, errand>>

-------------------------------------------------------------------------------
(* What happens meanwhile *)

\* The session expires.
SessionExpires ==
  /\ SignedIn /\ session' = Stale
  /\ Acts /\ tab' = Afresh
  /\ UNCHANGED <<cookie, tenants, acted, crossed, errand>>

\* The membership of the invitation itself stays, if only as an invitation.
DropMember(a, s) ==
  /\ s \in member[a] /\ <<a, s>> # <<Invitee, InvitedTo>>
  /\ member' = [member EXCEPT ![a] = @ \ {s}]
  /\ Acts /\ tab' = Afresh /\ crossed' = Tabs
  /\ UNCHANGED <<browser, standing, acted, errand>>

ChangeStanding(s, status) ==
  /\ standing[s] \notin {status, "deleted"} /\ standing' = [standing EXCEPT ![s] = status]
  /\ Acts /\ tab' = Afresh /\ crossed' = Tabs
  /\ UNCHANGED <<browser, member, acted, errand>>

Entries ==
  {Root(page) : page \in {"home", "dashboard", "console", "invite"}}
    \cup {Path(Root("home"), s, page) : s \in Workspaces, page \in {"tile", "panel"}}
    \cup {Address(host, s, page) : host \in {"tenant", "admin"}, s \in Workspaces, page \in {"home", "panel"}}

NavNext ==
  \/ \E t \in Tabs :
       \/ AskToSignIn(t) \/ Forward(t) \/ SignInPage(t) \/ AfterSignIn(t) \/ TenantPage(t)
       \/ ConsolePage(t) \/ InvitePage(t) \/ PlainPage(t)
       \/ LogOut(t) \/ AcceptLink(t) \/ DeclineLink(t) \/ CallApi(t)
       \/ \E u \in Entries : Open(t, u)
       \/ \E a \in Accounts : LogIn(t, a)
       \/ \E s \in Workspaces : SwitchWorkspace(t, s)
  \/ SessionExpires
  \/ \E s \in Workspaces : ChangeStanding(s, "suspended") \/ ChangeStanding(s, "deleted")
  \/ \E a \in Accounts, s \in Workspaces : DropMember(a, s)

NavSpec == NavInit /\ [][NavNext]_navVars

-------------------------------------------------------------------------------
(* Properties *)

\* Redirects come to an end: whatever page is asked for, by whom and from which
\* host, a few requests later one is shown.  The exception is the admin host
\* for a member of a deleted tenant, whose pages send him to the root of the
\* host and so back to themselves (middleware.ts, t/layout.tsx, auth/redirect).
RedirectsEnd ==
  \A t \in Tabs :
    tab[t].hops = MaxHops =>
      tab[t].url.host = "admin" /\ \E s \in Joined : standing[s] = "deleted"

\* What a page of the admin tree asks of the API is done to the tenant that the
\* page shows, or refused, unless another tab has opened the path of another
\* tenant since, or signed another account in, or the account's memberships
\* have changed (middleware.ts, server-tenant.ts).
ActsOnShown ==
  \A t \in Tabs \ crossed : tab[t].step = "shows" => acted[t] \in {Nowhere, tab[t].as}

\* A visitor who follows an invitation comes to it, whoever he was signed in as
\* before: wherever he stops, the page is the invitation's or a sign-in page
\* that returns to it (middleware.ts, signin/page.tsx, keycloak-logout).
InviteSurvives ==
  \A t \in errand : tab[t].step = "shows" =>
    tab[t].url.page = "invite" \/ (tab[t].url.page = "signin" /\ tab[t].url.back = "invite")

\* The sign-in page that a visitor is sent to from the path of a tenant is the
\* one of that tenant, to which it returns (what middleware.ts says of its
\* parameter).
SignInBrandsPath ==
  \A t \in Tabs :
    LET u == tab[t].url IN
    tab[t].step = "shows" /\ u.page = "signin" /\ u.slug # Nowhere => tab[t].as = u.slug
===============================================================================
