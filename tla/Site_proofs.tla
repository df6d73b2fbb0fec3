---------------------------- MODULE Site_proofs ----------------------------
(***************************************************************************)
(* Proofs about the site of a tenant.  Navigation: redirects end, a call   *)
(* acts on the tenant that its page shows, an invitation survives.         *)
(* Convergence: a pass that ends leaves in the app what it read.           *)
(***************************************************************************)
EXTENDS Navigation, Convergence, FiniteSetTheorems, TLAPS

(***************************************************************************)
(* Navigation                                                              *)
(***************************************************************************)

(* A tab that follows the invitation is at it, or at a sign-in page that      *)
(* returns to it, also while it loads.                                        *)
ErrandKnows ==
  \A t \in errand :
    tab[t].url.page = "invite" \/ (tab[t].url.page = "signin" /\ tab[t].url.back = "invite")

(* The tenant on which a call of the page would act is the one it shows.      *)
ApiTenant(t) == IF tab[t].url.host = "root" THEN cookie ELSE tab[t].url.of
ShownKnows ==
  \A t \in Tabs \ crossed :
    /\ tab[t].step = "shows" /\ Served(tab[t].url) = "panel"
    /\ ApiTenant(t) \in Joined /\ standing[ApiTenant(t)] = "active"
    => tab[t].as = ApiTenant(t)

(* How many redirects are left at an address, at most.                        *)
Left(u) ==
  IF ~SignedIn THEN IF u.page = "signin" \/ (u.host = "root" /\ u.page = "home") THEN 0 ELSE 1
  ELSE CASE u.page \in {"signin", "no-workspace", "suspended"} -> 0
         [] u.page = "tile" -> 1
         [] u.page = "redirect" -> 2
         [] u.page = "home" -> IF u.host = "root" THEN 3 ELSE 1
         [] u.page = "panel" -> IF u.host = "root" THEN 4 ELSE IF u.host = "tenant" THEN 2 ELSE 1
         [] u.page = "console" -> IF IsStaff THEN 0 ELSE IF u.host = "root" THEN 4 ELSE 2
         [] u.page = "dashboard" -> 3
         [] OTHER -> 4

(* The exception: the admin host, for a member of a deleted tenant.           *)
Lost(u) == u.host = "admin" /\ \E s \in Joined : standing[s] = "deleted"

HopsCount ==
  \A t \in Tabs :
    /\ tab[t].url.host = "admin" => tab[t].url.page # "redirect"
    /\ tab[t].step = "shows" => tab[t].hops = 0
    /\ tab[t].step = "loads" /\ ~Lost(tab[t].url) => tab[t].hops + Left(tab[t].url) < MaxHops

NavInv == NavTypeOK /\ ErrandKnows /\ ShownKnows /\ ActsOnShown /\ HopsCount

-----------------------------------------------------------------------------
(* What the moves of a tab do to the tabs.                                    *)
LEMMA HopsBound == MaxHops \in Nat /\ MaxHops > 4 /\ MaxActs \in Nat
BY NavigationAssumption

\* No redirect yet is a number of redirects.
LEMMA ZeroHops == 0 \in 0..MaxHops
BY HopsBound

\* A redirect changes the address of one tab, and counts.
LEMMA GoesTo ==
  ASSUME NavTypeOK, NEW t \in Tabs, NEW u \in Urls, Goes(t, u), tab[t].hops < MaxHops
  PROVE  /\ tab' \in [Tabs -> TabState] /\ acted' = acted /\ acts' = acts
         /\ tab'[t].step = tab[t].step /\ tab'[t].url = u /\ tab'[t].as = tab[t].as
         /\ tab'[t].hops = tab[t].hops + 1
         /\ \A o \in Tabs \ {t} : tab'[o] = tab[o]
<1>1. tab[t] \in TabState
  BY DEF NavTypeOK
<1>2. tab[t].hops + 1 \in 0..MaxHops
  BY <1>1, HopsBound DEF TabState
<1>3. [tab[t] EXCEPT !.url = u, !.hops = tab[t].hops + 1] \in TabState
  BY <1>1, <1>2 DEF TabState
<1>4. tab' = [tab EXCEPT ![t] = [tab[t] EXCEPT !.url = u, !.hops = tab[t].hops + 1]]
  BY DEF Goes
<1>5. tab'[t] = [tab[t] EXCEPT !.url = u, !.hops = tab[t].hops + 1]
  BY <1>4 DEF NavTypeOK
<1> QED
  BY <1>1, <1>3, <1>4, <1>5 DEF NavTypeOK, TabState, Goes

\* A page that is shown ends the redirects of its tab.
LEMMA ShowsIts ==
  ASSUME NavTypeOK, NEW t \in Tabs, NEW s \in Workspaces \cup {Nowhere}, Shows(t, s)
  PROVE  /\ tab' \in [Tabs -> TabState] /\ acted' \in [Tabs -> Workspaces \cup {Nowhere}] /\ acts' = acts
         /\ tab'[t].step = "shows" /\ tab'[t].url = tab[t].url /\ tab'[t].as = s /\ tab'[t].hops = 0
         /\ acted'[t] = Nowhere
         /\ \A o \in Tabs \ {t} : tab'[o] = tab[o] /\ acted'[o] = acted[o]
<1>1. tab[t] \in TabState
  BY DEF NavTypeOK
<1>2. [tab[t] EXCEPT !.step = "shows", !.as = s, !.hops = 0] \in TabState
  BY <1>1, ZeroHops DEF TabState
<1>3. tab' = [tab EXCEPT ![t] = [tab[t] EXCEPT !.step = "shows", !.as = s, !.hops = 0]]
  BY DEF Shows
<1>4. tab'[t] = [tab[t] EXCEPT !.step = "shows", !.as = s, !.hops = 0]
  BY <1>3 DEF NavTypeOK
<1> QED
  BY <1>1, <1>2, <1>3, <1>4 DEF NavTypeOK, TabState, Shows

\* A tab that loads afresh has no redirects behind it.
LEMMA AfreshIs ==
  ASSUME NavTypeOK
  PROVE  /\ Afresh \in [Tabs -> TabState]
         /\ \A o \in Tabs : /\ Afresh[o].step = tab[o].step /\ Afresh[o].url = tab[o].url
                            /\ Afresh[o].as = tab[o].as /\ Afresh[o].hops = 0
<1>1. \A o \in Tabs : tab[o] \in TabState
  BY DEF NavTypeOK
<1>2. \A o \in Tabs : [tab[o] EXCEPT !.hops = 0] \in TabState
  BY <1>1, ZeroHops DEF TabState
<1>3. \A o \in Tabs : Afresh[o] = [tab[o] EXCEPT !.hops = 0]
  BY DEF Afresh
<1>4. Afresh \in [Tabs -> TabState]
  BY <1>2 DEF Afresh
<1> QED
  BY <1>1, <1>3, <1>4 DEF TabState

\* A link loads its address afresh, in its own tab.
LEMMA LoadsIts ==
  ASSUME NavTypeOK, NEW t \in Tabs, NEW u \in Urls, Loads(t, u)
  PROVE  /\ tab' \in [Tabs -> TabState] /\ acted' = acted /\ acts' \in 0..MaxActs
         /\ tab'[t].step = "loads" /\ tab'[t].url = u
         /\ \A o \in Tabs \ {t} : /\ tab'[o].step = tab[o].step /\ tab'[o].url = tab[o].url
                                  /\ tab'[o].as = tab[o].as
         /\ \A o \in Tabs : tab'[o].hops = 0
<1>1. tab[t] \in TabState
  BY DEF NavTypeOK
<1>2. [tab[t] EXCEPT !.step = "loads", !.url = u, !.hops = 0] \in TabState
  BY <1>1, ZeroHops DEF TabState
<1>3. tab' = [Afresh EXCEPT ![t] = [tab[t] EXCEPT !.step = "loads", !.url = u, !.hops = 0]]
  BY DEF Loads
<1>4. tab'[t] = [tab[t] EXCEPT !.step = "loads", !.url = u, !.hops = 0]
  BY <1>3, AfreshIs
<1>5. acts' \in 0..MaxActs
  BY HopsBound DEF Loads, Acts, NavTypeOK
<1>6. \A o \in Tabs \ {t} : tab'[o] = Afresh[o]
  BY <1>3, AfreshIs
<1>7. tab' \in [Tabs -> TabState]
  BY <1>2, <1>3, AfreshIs
<1>8. tab'[t].step = "loads" /\ tab'[t].url = u /\ tab'[t].hops = 0
  BY <1>1, <1>4 DEF TabState
<1> QED
  BY <1>5, <1>6, <1>7, <1>8, AfreshIs DEF Loads

(* Where a tab may be sent.                                                   *)
LEMMA AddressIs ==
  ASSUME NEW host \in {"root", "tenant", "admin"}, NEW s \in Workspaces \cup {Nowhere}, NEW page \in NavPages
  PROVE  /\ Address(host, s, page) \in Urls
         /\ Address(host, s, page).host = host /\ Address(host, s, page).of = s
         /\ Address(host, s, page).page = page /\ Address(host, s, page).back = "none"
BY DEF Address, Urls

\* The addresses that the code builds are addresses.
LEMMA RootIs ==
  ASSUME NEW page \in NavPages
  PROVE  Root(page) \in Urls /\ Root(page).host = "root" /\ Root(page).page = page
BY AddressIs DEF Root

\* So is another page of the same host.
LEMMA OnIs ==
  ASSUME NEW u \in Urls, NEW page \in NavPages
  PROVE  On(u, page) \in Urls /\ On(u, page).host = u.host /\ On(u, page).page = page
<1>1. u.host \in {"root", "tenant", "admin"} /\ u.of \in Workspaces \cup {Nowhere}
  BY DEF Urls
<1> QED
  BY <1>1, AddressIs DEF On

\* So is a page below the path of a tenant.
LEMMA PathIs ==
  ASSUME NEW u \in Urls, NEW s \in Workspaces, NEW page \in NavPages
  PROVE  Path(u, s, page) \in Urls /\ Path(u, s, page).page = page
<1>1. On(u, page) \in Urls /\ On(u, page).page = page
  BY OnIs
<1> QED
  BY <1>1 DEF Path, Urls

\* So is what a visitor types, which is never half of a sign-in.
LEMMA EntriesAre == ASSUME NEW u \in Entries PROVE u \in Urls /\ u.page \notin {"redirect", "signin"}
<1>1. CASE u \in {Root(page) : page \in {"home", "dashboard", "console", "invite"}}
  BY <1>1, RootIs DEF NavPages
<1>2. CASE u \in {Path(Root("home"), s, page) : s \in Workspaces, page \in {"tile", "panel"}}
  <2>1. PICK s \in Workspaces, page \in {"tile", "panel"} : u = Path(Root("home"), s, page)
    BY <1>2
  <2>2. Root("home") \in Urls /\ page \in NavPages
    BY RootIs DEF NavPages
  <2> QED
    BY <2>1, <2>2, PathIs
<1>3. CASE u \in {Address(host, s, page) : host \in {"tenant", "admin"}, s \in Workspaces, page \in {"home", "panel"}}
  BY <1>3, AddressIs DEF NavPages
<1> QED
  BY <1>1, <1>2, <1>3 DEF Entries

\* The parts of an address.
LEMMA UrlFields ==
  ASSUME NavTypeOK, NEW t \in Tabs
  PROVE  /\ tab[t] \in TabState /\ tab[t].url \in Urls /\ tab[t].url.page \in NavPages
         /\ tab[t].url.host \in {"root", "tenant", "admin"}
         /\ tab[t].url.of \in Workspaces \cup {Nowhere} /\ tab[t].url.slug \in Workspaces \cup {Nowhere}
<1>1. tab[t] \in TabState /\ tab[t].url \in Urls
  BY DEF NavTypeOK, TabState
<1> QED
  BY <1>1 DEF Urls

\* The address that a sign-in returns to is an address.
LEMMA ReturnIs ==
  ASSUME NEW s \in Workspaces \cup {Nowhere}, NEW back \in {"none", "invite", "admin"}
  PROVE  LET v == [Root("redirect") EXCEPT !.slug = s, !.back = back] IN
         v \in Urls /\ v.host = "root" /\ v.page = "redirect"
<1>1. Root("redirect") \in Urls /\ Root("redirect").host = "root" /\ Root("redirect").page = "redirect"
  BY RootIs DEF NavPages
<1> QED
  BY <1>1 DEF Urls

(* Who visits, and what of it the redirects depend on.                        *)
SameVisitor ==
  /\ SignedIn' <=> SignedIn
  /\ IsStaff' <=> IsStaff
  /\ Joined' = Joined /\ standing' = standing

\* A visitor joins workspaces only.
LEMMA JoinedAre == ASSUME NavTypeOK PROVE Joined \in SUBSET Workspaces /\ Nowhere \notin Joined
BY NavigationAssumption DEF NavTypeOK, Joined, SignedIn

\* A session that heals is of the same visitor.
LEMMA HealsSame ==
  ASSUME session' = session \/ Heals, UNCHANGED tenants
  PROVE  SameVisitor
<1>1. SignedIn' <=> SignedIn
  BY NavigationAssumption DEF Heals, SignedIn
<1>2. IsStaff' <=> IsStaff
  BY NavigationAssumption DEF Heals, IsStaff
<1>3. Joined' = Joined
  <2>1. CASE session' = session
    BY <2>1 DEF Joined, SignedIn, tenants
  <2>2. CASE session' # session
    <3>1. ~SignedIn /\ ~SignedIn'
      BY <2>2, NavigationAssumption DEF Heals, SignedIn
    <3> QED
      BY <3>1 DEF Joined
  <2> QED
    BY <2>1, <2>2
<1> QED
  BY <1>1, <1>2, <1>3 DEF SameVisitor, tenants

\* Four redirects are enough from anywhere.
LEMMA LeftIsSmall == ASSUME NEW u \in Urls PROVE Left(u) \in 0..4
BY DEF Left, Urls, NavPages

(* It is enough to count at the addresses the tabs come to.                   *)
LEMMA CountsNext ==
  ASSUME SameVisitor,
         \A o \in Tabs :
           /\ tab'[o].url.host = "admin" => tab'[o].url.page # "redirect"
           /\ tab'[o].step = "shows" => tab'[o].hops = 0
           /\ tab'[o].step = "loads" /\ ~Lost(tab'[o].url) => tab'[o].hops + Left(tab'[o].url) < MaxHops
  PROVE  HopsCount'
<1>1. ASSUME NEW o \in Tabs PROVE Lost(tab[o].url)' <=> Lost(tab'[o].url)
  BY DEF SameVisitor, Lost
<1>2. ASSUME NEW o \in Tabs PROVE Left(tab[o].url)' = Left(tab'[o].url)
  BY DEF SameVisitor, Left
<1> QED
  BY <1>1, <1>2 DEF HopsCount

\* A redirect to an address with fewer to come keeps the count.
LEMMA GoesDown ==
  ASSUME NavTypeOK, HopsCount, SameVisitor, NEW t \in Tabs, NEW u \in Urls, Goes(t, u),
         tab[t].step = "loads", tab[t].hops < MaxHops, u.host = "admin" => u.page # "redirect",
         Lost(u) \/ (~Lost(tab[t].url) /\ Left(u) < Left(tab[t].url))
  PROVE  HopsCount'
<1> SUFFICES ASSUME NEW o \in Tabs
             PROVE  /\ tab'[o].url.host = "admin" => tab'[o].url.page # "redirect"
                    /\ tab'[o].step = "shows" => tab'[o].hops = 0
                    /\ tab'[o].step = "loads" /\ ~Lost(tab'[o].url) =>
                         tab'[o].hops + Left(tab'[o].url) < MaxHops
  BY CountsNext
<1>1. CASE o = t
  <2>1. tab'[t].step = "loads" /\ tab'[t].url = u /\ tab'[t].hops = tab[t].hops + 1
    BY GoesTo
  <2>2. tab[t].hops \in Nat /\ Left(u) \in Nat /\ Left(tab[t].url) \in Nat
    BY UrlFields, LeftIsSmall DEF TabState
  <2>3. Lost(u) \/ tab[t].hops + Left(tab[t].url) < MaxHops
    BY DEF HopsCount
  <2>4. Lost(u) \/ tab[t].hops + 1 + Left(u) < MaxHops
    BY <2>2, <2>3, HopsBound
  <2> QED
    BY <1>1, <2>1, <2>4
<1>2. CASE o # t
  BY <1>2, GoesTo DEF HopsCount
<1> QED
  BY <1>1, <1>2

\* So does a page that is shown.
LEMMA ShowsEnds ==
  ASSUME NavTypeOK, HopsCount, SameVisitor, NEW t \in Tabs, NEW s \in Workspaces \cup {Nowhere}, Shows(t, s)
  PROVE  HopsCount'
<1> SUFFICES ASSUME NEW o \in Tabs
             PROVE  /\ tab'[o].url.host = "admin" => tab'[o].url.page # "redirect"
                    /\ tab'[o].step = "shows" => tab'[o].hops = 0
                    /\ tab'[o].step = "loads" /\ ~Lost(tab'[o].url) =>
                         tab'[o].hops + Left(tab'[o].url) < MaxHops
  BY CountsNext
<1>1. CASE o = t
  BY <1>1, ShowsIts DEF HopsCount
<1>2. CASE o # t
  BY <1>2, ShowsIts DEF HopsCount
<1> QED
  BY <1>1, <1>2

\* So does a load, with none behind it.
LEMMA AfreshCounts ==
  ASSUME NavTypeOK',
         \A o \in Tabs : /\ tab'[o].hops = 0
                         /\ tab'[o].url.host = "admin" => tab'[o].url.page # "redirect"
  PROVE  HopsCount'
<1>1. ASSUME NEW o \in Tabs PROVE Left(tab[o].url)' \in 0..4
  <2>1. tab'[o].url \in Urls
    BY DEF NavTypeOK, TabState
  <2> QED
    BY <2>1 DEF Left, Urls, NavPages
<1> QED
  BY <1>1, HopsBound DEF HopsCount

\* Where pages and guards lead.  Without a session, to sign-in.
LEMMA AskMoves ==
  ASSUME NavTypeOK, NEW t \in Tabs, AskToSignIn(t)
  PROVE  /\ tab[t].step = "loads" /\ tab[t].hops < MaxHops /\ ~SignedIn /\ ~Public(tab[t].url)
         /\ \E u \in Urls : /\ Goes(t, u) /\ u.host = tab[t].url.host /\ u.page = "signin"
                            /\ tab[t].url.page = "invite" => u.back = "invite"
<1> DEFINE s == IF TenantPath(tab[t].url) THEN tab[t].url.slug ELSE Nowhere
           back == IF tab[t].url.page = "invite" THEN "invite" ELSE "none"
<1>1. s \in Workspaces \cup {Nowhere} /\ back \in {"none", "invite", "admin"} /\ "signin" \in NavPages
  BY UrlFields DEF NavPages
<1>2. /\ Goes(t, [On(tab[t].url, "signin") EXCEPT !.slug = s, !.back = back])
      /\ tab[t].step = "loads" /\ tab[t].hops < MaxHops /\ ~SignedIn /\ ~Public(tab[t].url)
  BY DEF AskToSignIn, Bounces
<1> HIDE DEF s, back
<1>3. LET v == [On(tab[t].url, "signin") EXCEPT !.slug = s, !.back = back]
      IN  v \in Urls /\ v.host = tab[t].url.host /\ v.page = "signin" /\ v.back = back
  <2>1. On(tab[t].url, "signin") \in Urls /\ On(tab[t].url, "signin").host = tab[t].url.host /\ On(tab[t].url, "signin").page = "signin"
    BY <1>1, UrlFields, OnIs
  <2> QED
    BY <1>1, <2>1 DEF Urls
<1>4. tab[t].url.page = "invite" => back = "invite"
  BY DEF back
<1> QED
  BY <1>2, <1>3, <1>4

\* A page that only forwards leads to one with fewer redirects to come.
LEMMA ForwardMoves ==
  ASSUME NavTypeOK, NEW t \in Tabs, Forward(t)
  PROVE  /\ tab[t].step = "loads" /\ tab[t].hops < MaxHops /\ SignedIn
         /\ \E u \in Urls : /\ Goes(t, u) /\ u.host \in {"root", "tenant"}
                            /\ Left(u) < Left(tab[t].url)
         /\ tab[t].url.page \in {"home", "dashboard"} /\ tab[t].url.host \in {"root", "tenant"}
<1> DEFINE w == tab[t].url
<1>0. w \in Urls /\ w.host \in {"root", "tenant", "admin"}
  BY UrlFields
<1>1. CASE Asks(t, {"home"}) /\ SignedIn /\ Goes(t, Root("redirect"))
  <2>1. w.page = "home" /\ w.host = "root"
    BY <1>0, <1>1 DEF Asks, Served
  <2>2. Root("redirect") \in Urls /\ Root("redirect").host = "root" /\ Root("redirect").page = "redirect"
    BY RootIs DEF NavPages
  <2>3. Left(Root("redirect")) < Left(w)
    BY <1>1, <2>1, <2>2 DEF Left
  <2> QED
    BY <1>1, <2>1, <2>2, <2>3 DEF Asks
<1>2. CASE Asks(t, {"dashboard"}) /\ Goes(t, IF w.host = "root" THEN Root("redirect") ELSE On(w, "panel"))
  <2>1. w.page = "dashboard" /\ w.host \in {"root", "tenant"} /\ SignedIn
    BY <1>0, <1>2 DEF Asks, Served, Public
  <2>2. /\ Root("redirect") \in Urls /\ Root("redirect").host = "root" /\ Root("redirect").page = "redirect"
        /\ On(w, "panel") \in Urls /\ On(w, "panel").host = w.host /\ On(w, "panel").page = "panel"
    BY <1>0, RootIs, OnIs DEF NavPages
  <2>3. CASE w.host = "root"
    <3>1. Left(Root("redirect")) < Left(w)
      BY <2>1, <2>2 DEF Left
    <3> QED
      BY <1>2, <2>1, <2>2, <2>3, <3>1 DEF Asks
  <2>4. CASE w.host = "tenant"
    <3>1. Left(On(w, "panel")) < Left(w)
      BY <2>1, <2>2, <2>4 DEF Left
    <3> QED
      BY <1>2, <2>1, <2>2, <2>4, <3>1 DEF Asks
  <2> QED
    BY <2>1, <2>3, <2>4
<1> QED
  BY <1>1, <1>2 DEF Forward

\* So does the redirect after a sign-in, to a page or back to sign-in.
LEMMA AfterSignInMoves ==
  ASSUME NavTypeOK, NEW t \in Tabs, AfterSignIn(t)
  PROVE  /\ tab[t].step = "loads" /\ tab[t].hops < MaxHops /\ tab[t].url.page = "redirect"
         /\ \E u \in Urls : Goes(t, u) /\ u.page # "redirect" /\ Left(u) < Left(tab[t].url)
<1> DEFINE w == tab[t].url
           host == IF w.back = "admin" THEN "admin" ELSE "tenant"
<1>1. w \in Urls /\ w.page = "redirect" /\ Asks(t, {"redirect"})
  BY UrlFields DEF AfterSignIn, Asks, Served
<1>2. CASE ~SignedIn /\ Goes(t, On(w, "signin"))
  <2>1. On(w, "signin") \in Urls /\ On(w, "signin").page = "signin"
    BY <1>1, OnIs DEF NavPages
  <2>2. Left(On(w, "signin")) < Left(w)
    BY <1>1, <1>2, <2>1 DEF Left
  <2> QED
    BY <1>1, <1>2, <2>1, <2>2 DEF Asks
<1>3. CASE IsStaff /\ Goes(t, On(w, "console"))
  <2>1. On(w, "console") \in Urls /\ On(w, "console").page = "console" /\ SignedIn
    BY <1>1, <1>3, OnIs, NavigationAssumption DEF NavPages, IsStaff, SignedIn
  <2>2. Left(On(w, "console")) < Left(w)
    BY <1>1, <1>3, <2>1 DEF Left
  <2> QED
    BY <1>1, <1>3, <2>1, <2>2 DEF Asks
<1>4. CASE SignedIn /\ Goes(t, On(w, "no-workspace"))
  <2>1. On(w, "no-workspace") \in Urls /\ On(w, "no-workspace").page = "no-workspace"
    BY <1>1, OnIs DEF NavPages
  <2>2. Left(On(w, "no-workspace")) < Left(w)
    BY <1>1, <1>4, <2>1 DEF Left
  <2> QED
    BY <1>1, <1>4, <2>1, <2>2 DEF Asks
<1>5. ASSUME NEW s \in Joined, Goes(t, Address(host, s, "home"))
      PROVE \E u \in Urls : Goes(t, u) /\ u.page # "redirect" /\ Left(u) < Left(w)
  <2>1. SignedIn /\ s \in Workspaces
    BY JoinedAre DEF Joined
  <2>2. /\ Address(host, s, "home") \in Urls /\ Address(host, s, "home").page = "home"
        /\ Address(host, s, "home").host = host
    BY <2>1, AddressIs DEF NavPages
  <2>3. Left(Address(host, s, "home")) < Left(w)
    BY <1>1, <2>1, <2>2 DEF Left
  <2> QED
    BY <1>5, <2>2, <2>3
<1>6. \/ ~SignedIn /\ Goes(t, On(w, "signin"))
      \/ IsStaff /\ Goes(t, On(w, "console"))
      \/ SignedIn /\ Goes(t, On(w, "no-workspace"))
      \/ \E s \in Joined : Goes(t, Address(host, s, "home"))
  BY DEF AfterSignIn
<1> QED
  BY <1>1, <1>2, <1>3, <1>4, <1>5, <1>6 DEF Asks

\* The admin pages of a tenant send away, or show the tenant resolved.
LEMMA AdminTreeMoves ==
  ASSUME NEW t \in Tabs, NEW s, AdminTree(t, s)
  PROVE  \/ IsStaff /\ tab[t].url.host # "admin" /\ Goes(t, Root("console"))
         \/ Resolved(s) = Nowhere /\ Goes(t, On(tab[t].url, "home"))
         \/ Resolved(s) # Nowhere /\ Shows(t, s) /\ Resolved(s) = s
BY DEF AdminTree, Resolved

\* A page of a tenant sends away, or shows a tenant that is current.
LEMMA TenantPageMoves ==
  ASSUME NavTypeOK, NEW t \in Tabs, TenantPage(t)
  PROVE  /\ tab[t].step = "loads" /\ tab[t].hops < MaxHops /\ Served(tab[t].url) \in {"tile", "panel"}
         /\ \/ \E u \in Urls : /\ Goes(t, u) /\ u.page # "redirect"
                               /\ Lost(u) \/ (~Lost(tab[t].url) /\ Left(u) < Left(tab[t].url))
            \/ \E s \in Current(tab[t].url) :
                 Resolved(s) \in Workspaces \cup {Nowhere} /\ Shows(t, Resolved(s))
                   /\ (Served(tab[t].url) = "panel" => Resolved(s) # Nowhere)
<1> DEFINE w == tab[t].url
<1>1. /\ w \in Urls /\ w.host \in {"root", "tenant", "admin"} /\ Asks(t, {"tile", "panel"})
      /\ Served(w) \in {"tile", "panel"}
  BY UrlFields DEF TenantPage, Asks
<1>2. w.page \in {"tile", "panel"} \/ (w.page = "home" /\ w.host \in {"tenant", "admin"})
  BY <1>1 DEF Served
<1>3. SignedIn
  BY <1>1, <1>2 DEF Asks, Public
<1>4. Left(w) > 0
  BY <1>1, <1>2, <1>3 DEF Left
<1>5. PICK s \in Current(w) :
       LET shut == s # Nowhere /\ standing[s] = "suspended" IN
       \/ shut /\ Goes(t, On(w, "suspended"))
       \/ ~shut /\ Joined = {} /\ Goes(t, On(w, "no-workspace"))
       \/ ~shut /\ Joined # {} /\ Served(w) = "tile" /\ Shows(t, Resolved(s))
       \/ ~shut /\ Joined # {} /\ Served(w) = "panel" /\ AdminTree(t, s)
  BY DEF TenantPage
<1>6. Resolved(s) \in Workspaces \cup {Nowhere}
  BY <1>1, JoinedAre, UrlFields DEF Current, HeaderSlug, Resolved, NavTypeOK
<1>7. ASSUME NEW page \in {"suspended", "no-workspace"}, Goes(t, On(w, page))
      PROVE  \E u \in Urls : /\ Goes(t, u) /\ u.page # "redirect"
                             /\ Lost(u) \/ (~Lost(w) /\ Left(u) < Left(w))
  <2>1. On(w, page) \in Urls /\ On(w, page).host = w.host /\ On(w, page).page = page
    BY <1>1, OnIs DEF NavPages
  <2>2. Left(On(w, page)) = 0
    BY <1>3, <2>1 DEF Left
  <2>3. Lost(w) => Lost(On(w, page))
    BY <2>1 DEF Lost
  <2> QED
    BY <1>4, <1>7, <2>1, <2>2, <2>3
<1>8. ASSUME Joined # {}, Served(w) = "panel", AdminTree(t, s)
      PROVE  \/ \E u \in Urls : /\ Goes(t, u) /\ u.page # "redirect"
                                /\ Lost(u) \/ (~Lost(w) /\ Left(u) < Left(w))
             \/ Shows(t, Resolved(s)) /\ Resolved(s) # Nowhere
  <2>1. CASE IsStaff /\ w.host # "admin" /\ Goes(t, Root("console"))
    <3>1. Root("console") \in Urls /\ Root("console").page = "console"
      BY RootIs DEF NavPages
    <3>2. Left(Root("console")) = 0
      BY <1>3, <2>1, <3>1 DEF Left
    <3> QED
      BY <1>4, <2>1, <3>1, <3>2 DEF Lost
  <2>2. CASE Resolved(s) = Nowhere /\ Goes(t, On(w, "home"))
    <3>1. On(w, "home") \in Urls /\ On(w, "home").host = w.host /\ On(w, "home").page = "home"
      BY <1>1, OnIs DEF NavPages
    <3>2. s \in Joined /\ s # Nowhere
      BY <1>8, JoinedAre DEF Current
    <3>3. standing[s] = "deleted"
      BY <2>2, <3>2 DEF Resolved
    <3>4. CASE w.host = "admin"
      BY <2>2, <3>1, <3>2, <3>3, <3>4 DEF Lost
    <3>5. CASE w.host # "admin"
      <4>1. w.page = "panel"
        BY <1>1, <1>2, <1>8, <3>5 DEF Served
      <4>2. Left(On(w, "home")) < Left(w)
        BY <1>1, <1>3, <3>1, <3>5, <4>1 DEF Left
      <4> QED
        BY <2>2, <3>1, <3>5, <4>2 DEF Lost
    <3> QED
      BY <3>4, <3>5
  <2>3. CASE Resolved(s) # Nowhere /\ Shows(t, Resolved(s))
    BY <2>3
  <2>4. \/ IsStaff /\ w.host # "admin" /\ Goes(t, Root("console"))
        \/ Resolved(s) = Nowhere /\ Goes(t, On(w, "home"))
        \/ Resolved(s) # Nowhere /\ Shows(t, Resolved(s))
    BY <1>8, AdminTreeMoves
  <2> QED
    BY <2>1, <2>2, <2>3, <2>4
<1> QED
  BY <1>1, <1>5, <1>6, <1>7, <1>8 DEF Asks

\* The console is shown, or sends away.
LEMMA ConsolePageMoves ==
  ASSUME NavTypeOK, NEW t \in Tabs, ConsolePage(t)
  PROVE  /\ tab[t].step = "loads" /\ tab[t].hops < MaxHops /\ tab[t].url.page = "console"
         /\ \/ Shows(t, Nowhere)
            \/ \E u \in Urls : /\ Goes(t, u) /\ u.page # "redirect"
                               /\ Lost(u) \/ (~Lost(tab[t].url) /\ Left(u) < Left(tab[t].url))
<1> DEFINE w == tab[t].url
<1>1. w \in Urls /\ w.page = "console" /\ SignedIn /\ Asks(t, {"console"})
  BY UrlFields DEF ConsolePage, Asks, Served, Public
<1>2. CASE ~IsStaff /\ Goes(t, On(w, "home"))
  <2>1. On(w, "home") \in Urls /\ On(w, "home").host = w.host /\ On(w, "home").page = "home"
    BY <1>1, OnIs DEF NavPages
  <2>2. Left(On(w, "home")) < Left(w)
    BY <1>1, <1>2, <2>1 DEF Left
  <2>3. Lost(w) => Lost(On(w, "home"))
    BY <2>1 DEF Lost
  <2> QED
    BY <1>1, <1>2, <2>1, <2>2, <2>3 DEF Asks
<1> QED
  BY <1>1, <1>2 DEF ConsolePage, Asks

\* The page of an invitation is shown, or sends away.
LEMMA InvitePageMoves ==
  ASSUME NavTypeOK, NEW t \in Tabs, InvitePage(t)
  PROVE  /\ tab[t].step = "loads" /\ tab[t].hops < MaxHops /\ tab[t].url.page = "invite"
         /\ \/ Shows(t, Nowhere) /\ errand' = errand
            \/ /\ errand' = errand \ {t}
               /\ \E u \in Urls : /\ Goes(t, u) /\ u.page # "redirect" /\ ~Lost(tab[t].url)
                                  /\ Left(u) < Left(tab[t].url)
<1> DEFINE w == tab[t].url
<1>1. w \in Urls /\ w.page = "invite" /\ w.host # "admin" /\ SignedIn /\ Asks(t, {"invite"})
  BY UrlFields DEF InvitePage, Asks, Served, Public
<1>2. CASE Goes(t, On(w, "dashboard")) /\ errand' = errand \ {t}
  <2>1. On(w, "dashboard") \in Urls /\ On(w, "dashboard").page = "dashboard"
    BY <1>1, OnIs DEF NavPages
  <2>2. Left(On(w, "dashboard")) < Left(w)
    BY <1>1, <2>1 DEF Left
  <2> QED
    BY <1>1, <1>2, <2>1, <2>2 DEF Asks, Lost
<1> QED
  BY <1>1, <1>2 DEF InvitePage, Asks

\* Who signs in comes to the root host, at the invitation if it asked.
LEMMA LogInMoves ==
  ASSUME NavTypeOK, NEW t \in Tabs, NEW a \in Accounts, LogIn(t, a)
  PROVE  /\ tab[t].url.page = "signin"
         /\ \E u \in Urls : /\ Loads(t, u) /\ u.host = "root"
                            /\ tab[t].url.back = "invite" => u.page = "invite"
<1>1. CASE tab[t].url.back = "invite"
  BY <1>1, RootIs DEF LogIn, NavPages
<1>2. CASE tab[t].url.back # "invite"
  <2> DEFINE back == IF tab[t].url.host = "admin" THEN "admin" ELSE "none"
  <2>1. Loads(t, [Root("redirect") EXCEPT !.slug = tab[t].as, !.back = back])
    BY <1>2 DEF LogIn
  <2>2. tab[t].as \in Workspaces \cup {Nowhere} /\ back \in {"none", "invite", "admin"}
    BY UrlFields DEF TabState
  <2>3. LET v == [Root("redirect") EXCEPT !.slug = tab[t].as, !.back = back]
        IN  v \in Urls /\ v.host = "root" /\ v.page = "redirect"
    BY <2>2, ReturnIs
  <2> QED
    BY <1>2, <2>1, <2>3 DEF LogIn
<1> QED
  BY <1>1, <1>2

\* Who signs out comes to a sign-in page, which returns to the invitation.
LEMMA LogOutMoves ==
  ASSUME NavTypeOK, NEW t \in Tabs, LogOut(t)
  PROVE  /\ tab[t].url.page # "signin"
         /\ \E u \in Urls : /\ Loads(t, u) /\ u.page = "signin"
                            /\ tab[t].url.page = "invite" => u.back = "invite"
<1> DEFINE back == IF tab[t].url.page = "invite" THEN "invite" ELSE "none"
<1>1. tab[t].url.page # "signin" /\ Loads(t, [On(tab[t].url, "signin") EXCEPT !.back = back])
  BY UrlFields DEF LogOut, Served
<1>2. On(tab[t].url, "signin") \in Urls /\ On(tab[t].url, "signin").page = "signin"
  BY UrlFields, OnIs DEF NavPages
<1>3. LET v == [On(tab[t].url, "signin") EXCEPT !.back = back]
      IN  v \in Urls /\ v.page = "signin" /\ v.back = back
  BY <1>2 DEF Urls
<1> QED
  BY <1>1, <1>3

\* Who accepts, declines or switches loads a page that is no redirect.
LEMMA AcceptMoves ==
  ASSUME NavTypeOK, NEW t \in Tabs, AcceptLink(t)
  PROVE  \E u \in Urls : Loads(t, u) /\ u.page # "redirect"
<1>1. On(tab[t].url, "dashboard") \in Urls /\ On(tab[t].url, "dashboard").page = "dashboard"
  BY UrlFields, OnIs DEF NavPages
<1>2. InvitedTo \in Workspaces /\ "tile" \in NavPages
  BY NavigationAssumption DEF NavPages
<1>3. Path(tab[t].url, InvitedTo, "tile") \in Urls /\ Path(tab[t].url, InvitedTo, "tile").page = "tile"
  BY <1>2, UrlFields, PathIs
<1> QED
  BY <1>1, <1>3 DEF AcceptLink

\* Likewise the link that declines.
LEMMA DeclineMoves ==
  ASSUME NavTypeOK, NEW t \in Tabs, DeclineLink(t)
  PROVE  \E u \in Urls : Loads(t, u) /\ u.page # "redirect"
BY UrlFields, OnIs DEF DeclineLink, NavPages

\* Likewise the switch of workspaces.
LEMMA SwitchMoves ==
  ASSUME NavTypeOK, NEW t \in Tabs, NEW s \in Workspaces, SwitchWorkspace(t, s)
  PROVE  \E u \in Urls : Loads(t, u) /\ u.page # "redirect"
BY UrlFields, PathIs DEF SwitchWorkspace, NavPages

\* The sign-in page is shown, for a tenant or for none.
LEMMA SignInShows ==
  ASSUME NavTypeOK, NEW t \in Tabs, SignInPage(t)
  PROVE  \E s \in Workspaces \cup {Nowhere} : Shows(t, s)
BY UrlFields DEF SignInPage, HeaderSlug, NavTypeOK

\* An address that is typed loads afresh.
LEMMA OpenMoves ==
  ASSUME NavTypeOK, NEW t \in Tabs, NEW u \in Entries, Open(t, u)
  PROVE  u \in Urls /\ Loads(t, u) /\ u.page # "redirect"
BY EntriesAre DEF Open

-----------------------------------------------------------------------------
(* The panels that are shown were shown before, of the same tenant.           *)
PanelsStay ==
  \A o \in Tabs \ crossed' : tab'[o].step = "shows" /\ Served(tab'[o].url) = "panel" =>
    /\ o \notin crossed /\ tab[o].step = "shows"
    /\ tab'[o].url = tab[o].url /\ tab'[o].as = tab[o].as
    /\ tab[o].url.host = "root" => cookie' = cookie

\* A page that is not touched still shows the tenant its calls act on.
LEMMA ShownStays ==
  ASSUME NavTypeOK, ShownKnows, Joined' \subseteq Joined, standing' = standing, PanelsStay
  PROVE  ShownKnows'
<1>1. SUFFICES ASSUME NEW o \in Tabs \ crossed', tab'[o].step = "shows", Served(tab'[o].url) = "panel",
                      ApiTenant(o)' \in Joined', standing'[ApiTenant(o)'] = "active"
               PROVE  tab'[o].as = ApiTenant(o)'
  <2>1. \A o : Served(tab[o].url)' = Served(tab'[o].url)
    BY DEF Served
  <2> QED
    BY <2>1 DEF ShownKnows
<1>2. /\ o \notin crossed /\ tab[o].step = "shows"
      /\ tab'[o].url = tab[o].url /\ tab'[o].as = tab[o].as
      /\ tab[o].url.host = "root" => cookie' = cookie
  BY <1>1 DEF PanelsStay
<1>3. ApiTenant(o)' = ApiTenant(o)
  BY <1>2 DEF ApiTenant
<1> QED
  BY <1>1, <1>2, <1>3 DEF ShownKnows

\* A step that leaves pages and acts alone keeps what was acted on.
LEMMA ActsStay ==
  ASSUME ActsOnShown,
         \A o \in Tabs \ crossed' : tab'[o].step = "shows" =>
           \/ acted'[o] = Nowhere
           \/ o \notin crossed /\ tab[o].step = "shows" /\ tab'[o].as = tab[o].as /\ acted'[o] = acted[o]
  PROVE  ActsOnShown'
BY DEF ActsOnShown

(* The types part by part: the tabs, the visitor, the tenants, the history.   *)
TabsOK ==
  tab \in [Tabs -> TabState] /\ acted \in [Tabs -> Workspaces \cup {Nowhere}] /\ acts \in 0..MaxActs
VisitorOK == session \in Accounts \cup {Nobody, Stale} /\ cookie \in Workspaces \cup {Nowhere}
TenantsOK ==
  /\ member \in [Accounts -> SUBSET Workspaces]
  /\ standing \in [Workspaces -> {"active", "suspended", "deleted"}]
HistoryOK == crossed \in SUBSET Tabs /\ errand \in SUBSET Tabs

\* These are all.
LEMMA NavParts == TabsOK' /\ VisitorOK' /\ TenantsOK' /\ HistoryOK' => NavTypeOK'
BY DEF NavTypeOK, TabsOK, VisitorOK, TenantsOK, HistoryOK

\* Every step of the browser keeps the types.
LEMMA NavTypeStep ==
  ASSUME NavTypeOK, NavNext \/ UNCHANGED navVars
  PROVE  NavTypeOK'
<1>1. ASSUME NEW t \in Tabs, AskToSignIn(t) PROVE NavTypeOK'
  <2>1. TabsOK'
    BY <1>1, AskMoves, GoesTo DEF NavTypeOK, TabsOK
  <2>2. VisitorOK'
    BY <1>1, UrlFields DEF AskToSignIn, Heals, NavTypeOK, Bounces, VisitorOK
  <2>3. TenantsOK'
    BY <1>1, NavigationAssumption DEF AskToSignIn, tenants, NavTypeOK, Bounces, TenantsOK
  <2>4. HistoryOK'
    BY <1>1 DEF AskToSignIn, NavTypeOK, Bounces, HistoryOK
  <2> QED
    BY <2>1, <2>2, <2>3, <2>4, NavParts
<1>2. ASSUME NEW t \in Tabs, Forward(t) PROVE NavTypeOK'
  <2>1. TabsOK'
    BY <1>2, ForwardMoves, GoesTo DEF NavTypeOK, TabsOK
  <2>2. VisitorOK'
    BY <1>2, UrlFields DEF Forward, browser, NavTypeOK, VisitorOK
  <2>3. TenantsOK'
    BY <1>2, NavigationAssumption DEF Forward, tenants, NavTypeOK, TenantsOK
  <2>4. HistoryOK'
    BY <1>2 DEF Forward, NavTypeOK, HistoryOK
  <2> QED
    BY <2>1, <2>2, <2>3, <2>4, NavParts
<1>3. ASSUME NEW t \in Tabs, SignInPage(t) PROVE NavTypeOK'
  <2>1. TabsOK'
    BY <1>3, SignInShows, ShowsIts DEF NavTypeOK, TabsOK
  <2>2. VisitorOK'
    BY <1>3, UrlFields DEF SignInPage, Heals, NavTypeOK, VisitorOK
  <2>3. TenantsOK'
    BY <1>3, NavigationAssumption DEF SignInPage, tenants, NavTypeOK, TenantsOK
  <2>4. HistoryOK'
    BY <1>3 DEF SignInPage, NavTypeOK, HistoryOK
  <2> QED
    BY <2>1, <2>2, <2>3, <2>4, NavParts
<1>4. ASSUME NEW t \in Tabs, AfterSignIn(t) PROVE NavTypeOK'
  <2>1. TabsOK'
    BY <1>4, AfterSignInMoves, GoesTo DEF NavTypeOK, TabsOK
  <2>2. VisitorOK'
    BY <1>4, UrlFields DEF AfterSignIn, Heals, NavTypeOK, VisitorOK
  <2>3. TenantsOK'
    BY <1>4, NavigationAssumption DEF AfterSignIn, tenants, NavTypeOK, TenantsOK
  <2>4. HistoryOK'
    BY <1>4 DEF AfterSignIn, NavTypeOK, HistoryOK
  <2> QED
    BY <2>1, <2>2, <2>3, <2>4, NavParts
<1>5. ASSUME NEW t \in Tabs, TenantPage(t) PROVE NavTypeOK'
  <2>1. TabsOK'
    BY <1>5, TenantPageMoves, GoesTo, ShowsIts DEF NavTypeOK, TabsOK
  <2>2. VisitorOK'
    BY <1>5, UrlFields DEF TenantPage, NavTypeOK, Remember, VisitorOK
  <2>3. TenantsOK'
    BY <1>5, NavigationAssumption DEF TenantPage, tenants, NavTypeOK, Remember, TenantsOK
  <2>4. HistoryOK'
    BY <1>5 DEF TenantPage, NavTypeOK, Remember, HistoryOK
  <2> QED
    BY <2>1, <2>2, <2>3, <2>4, NavParts
<1>6. ASSUME NEW t \in Tabs, ConsolePage(t) PROVE NavTypeOK'
  <2>1. TabsOK'
    BY <1>6, ConsolePageMoves, GoesTo, ShowsIts DEF NavTypeOK, TabsOK
  <2>2. VisitorOK'
    BY <1>6, UrlFields DEF ConsolePage, browser, NavTypeOK, VisitorOK
  <2>3. TenantsOK'
    BY <1>6, NavigationAssumption DEF ConsolePage, tenants, NavTypeOK, TenantsOK
  <2>4. HistoryOK'
    BY <1>6 DEF ConsolePage, NavTypeOK, HistoryOK
  <2> QED
    BY <2>1, <2>2, <2>3, <2>4, NavParts
<1>7. ASSUME NEW t \in Tabs, InvitePage(t) PROVE NavTypeOK'
  <2>1. TabsOK'
    BY <1>7, InvitePageMoves, GoesTo, ShowsIts DEF NavTypeOK, TabsOK
  <2>2. VisitorOK'
    BY <1>7, UrlFields DEF InvitePage, browser, NavTypeOK, VisitorOK
  <2>3. TenantsOK'
    BY <1>7, NavigationAssumption DEF InvitePage, tenants, NavTypeOK, TenantsOK
  <2>4. HistoryOK'
    BY <1>7 DEF InvitePage, NavTypeOK, HistoryOK
  <2> QED
    BY <2>1, <2>2, <2>3, <2>4, NavParts
<1>8. ASSUME NEW t \in Tabs, PlainPage(t) PROVE NavTypeOK'
  <2>1. TabsOK'
    BY <1>8, ShowsIts DEF PlainPage, NavTypeOK, TabsOK
  <2>2. VisitorOK'
    BY <1>8, UrlFields DEF PlainPage, Heals, NavTypeOK, VisitorOK
  <2>3. TenantsOK'
    BY <1>8, NavigationAssumption DEF PlainPage, tenants, NavTypeOK, TenantsOK
  <2>4. HistoryOK'
    BY <1>8 DEF PlainPage, NavTypeOK, HistoryOK
  <2> QED
    BY <2>1, <2>2, <2>3, <2>4, NavParts
<1>9. ASSUME NEW t \in Tabs, LogOut(t) PROVE NavTypeOK'
  <2>1. TabsOK'
    BY <1>9, LogOutMoves, LoadsIts DEF NavTypeOK, TabsOK
  <2>2. VisitorOK'
    BY <1>9, UrlFields DEF LogOut, NavTypeOK, VisitorOK
  <2>3. TenantsOK'
    BY <1>9, NavigationAssumption DEF LogOut, tenants, NavTypeOK, TenantsOK
  <2>4. HistoryOK'
    BY <1>9 DEF LogOut, NavTypeOK, HistoryOK
  <2> QED
    BY <2>1, <2>2, <2>3, <2>4, NavParts
<1>10. ASSUME NEW t \in Tabs, AcceptLink(t) PROVE NavTypeOK'
  <2>1. TabsOK'
    BY <1>10, AcceptMoves, LoadsIts DEF NavTypeOK, TabsOK
  <2>2. VisitorOK'
    BY <1>10, UrlFields DEF AcceptLink, browser, NavTypeOK, VisitorOK
  <2>3. TenantsOK'
    BY <1>10, NavigationAssumption DEF AcceptLink, NavTypeOK, TenantsOK
  <2>4. HistoryOK'
    BY <1>10 DEF AcceptLink, NavTypeOK, HistoryOK
  <2> QED
    BY <2>1, <2>2, <2>3, <2>4, NavParts
<1>11. ASSUME NEW t \in Tabs, DeclineLink(t) PROVE NavTypeOK'
  <2>1. TabsOK'
    BY <1>11, DeclineMoves, LoadsIts DEF NavTypeOK, TabsOK
  <2>2. VisitorOK'
    BY <1>11, UrlFields DEF DeclineLink, browser, NavTypeOK, VisitorOK
  <2>3. TenantsOK'
    BY <1>11, NavigationAssumption DEF DeclineLink, tenants, NavTypeOK, TenantsOK
  <2>4. HistoryOK'
    BY <1>11 DEF DeclineLink, NavTypeOK, HistoryOK
  <2> QED
    BY <2>1, <2>2, <2>3, <2>4, NavParts
<1>12. ASSUME NEW t \in Tabs, CallApi(t) PROVE NavTypeOK'
  <2>1. acted' \in [Tabs -> Workspaces \cup {Nowhere}]
    BY <1>12, UrlFields, JoinedAre DEF CallApi, NavTypeOK
  <2> QED
    BY <1>12, <2>1 DEF CallApi, browser, tenants, NavTypeOK
<1>13. ASSUME NEW t \in Tabs, NEW u \in Entries, Open(t, u) PROVE NavTypeOK'
  <2>1. TabsOK'
    BY <1>13, OpenMoves, LoadsIts DEF NavTypeOK, TabsOK
  <2>2. VisitorOK'
    BY <1>13, UrlFields DEF Open, browser, NavTypeOK, VisitorOK
  <2>3. TenantsOK'
    BY <1>13, NavigationAssumption DEF Open, tenants, NavTypeOK, TenantsOK
  <2>4. HistoryOK'
    BY <1>13 DEF Open, NavTypeOK, HistoryOK
  <2> QED
    BY <2>1, <2>2, <2>3, <2>4, NavParts
<1>14. ASSUME NEW t \in Tabs, NEW a \in Accounts, LogIn(t, a) PROVE NavTypeOK'
  <2>1. TabsOK'
    BY <1>14, LogInMoves, LoadsIts DEF NavTypeOK, TabsOK
  <2>2. VisitorOK'
    BY <1>14, UrlFields DEF LogIn, NavTypeOK, VisitorOK
  <2>3. TenantsOK'
    BY <1>14, NavigationAssumption DEF LogIn, tenants, NavTypeOK, TenantsOK
  <2>4. HistoryOK'
    BY <1>14 DEF LogIn, NavTypeOK, HistoryOK
  <2> QED
    BY <2>1, <2>2, <2>3, <2>4, NavParts
<1>15. ASSUME NEW t \in Tabs, NEW s \in Workspaces, SwitchWorkspace(t, s) PROVE NavTypeOK'
  <2>1. TabsOK'
    BY <1>15, SwitchMoves, LoadsIts DEF NavTypeOK, TabsOK
  <2>2. VisitorOK'
    BY <1>15, UrlFields DEF SwitchWorkspace, browser, NavTypeOK, VisitorOK
  <2>3. TenantsOK'
    BY <1>15, NavigationAssumption DEF SwitchWorkspace, tenants, NavTypeOK, TenantsOK
  <2>4. HistoryOK'
    BY <1>15 DEF SwitchWorkspace, NavTypeOK, HistoryOK
  <2> QED
    BY <2>1, <2>2, <2>3, <2>4, NavParts
<1>16. ASSUME SessionExpires PROVE NavTypeOK'
  <2>1. TabsOK'
    BY <1>16, AfreshIs, NavigationAssumption DEF SessionExpires, Acts, NavTypeOK, TabsOK
  <2>2. VisitorOK'
    BY <1>16, UrlFields DEF SessionExpires, NavTypeOK, VisitorOK
  <2>3. TenantsOK'
    BY <1>16, NavigationAssumption DEF SessionExpires, tenants, NavTypeOK, TenantsOK
  <2>4. HistoryOK'
    BY <1>16 DEF SessionExpires, NavTypeOK, HistoryOK
  <2> QED
    BY <2>1, <2>2, <2>3, <2>4, NavParts
<1>17. ASSUME NEW s \in Workspaces, NEW status \in {"suspended", "deleted"}, ChangeStanding(s, status)
       PROVE NavTypeOK'
  <2>1. TabsOK'
    BY <1>17, AfreshIs, NavigationAssumption DEF ChangeStanding, Acts, NavTypeOK, TabsOK
  <2>2. VisitorOK'
    BY <1>17, UrlFields DEF ChangeStanding, browser, NavTypeOK, VisitorOK
  <2>3. TenantsOK'
    BY <1>17, NavigationAssumption DEF ChangeStanding, NavTypeOK, TenantsOK
  <2>4. HistoryOK'
    BY <1>17 DEF ChangeStanding, NavTypeOK, HistoryOK
  <2> QED
    BY <2>1, <2>2, <2>3, <2>4, NavParts
<1>18. ASSUME NEW a \in Accounts, NEW s \in Workspaces, DropMember(a, s) PROVE NavTypeOK'
  <2>1. TabsOK'
    BY <1>18, AfreshIs, NavigationAssumption DEF DropMember, Acts, NavTypeOK, TabsOK
  <2>2. VisitorOK'
    BY <1>18, UrlFields DEF DropMember, browser, NavTypeOK, VisitorOK
  <2>3. TenantsOK'
    BY <1>18, NavigationAssumption DEF DropMember, NavTypeOK, TenantsOK
  <2>4. HistoryOK'
    BY <1>18 DEF DropMember, NavTypeOK, HistoryOK
  <2> QED
    BY <2>1, <2>2, <2>3, <2>4, NavParts
<1>19. ASSUME UNCHANGED navVars PROVE NavTypeOK'
  BY <1>19 DEF navVars, browser, tenants, NavTypeOK
<1> QED
  BY <1>1, <1>2, <1>3, <1>4, <1>5, <1>6, <1>7, <1>8, <1>9, <1>10, <1>11, <1>12, <1>13, <1>14,
     <1>15, <1>16, <1>17, <1>18, <1>19 DEF NavNext

\* Who follows an invitation stays on the way to it.
LEMMA ErrandKnowsStep ==
  ASSUME NavTypeOK, NavTypeOK', ErrandKnows, NavNext \/ UNCHANGED navVars
  PROVE  ErrandKnows'
<1>1. ASSUME NEW t \in Tabs, AskToSignIn(t) PROVE ErrandKnows'
  <2>1. PICK u \in Urls : Goes(t, u) /\ u.page = "signin" /\ (tab[t].url.page = "invite" => u.back = "invite")
    BY <1>1, AskMoves
  <2>2. errand' = errand /\ (t \in errand => tab[t].url.page = "invite")
    <3>1. errand' = errand
      BY <1>1 DEF AskToSignIn, Bounces
    <3>2. ~Public(tab[t].url)
      BY <1>1, AskMoves
    <3> QED
      BY <3>1, <3>2 DEF Public, ErrandKnows
  <2>3. tab'[t].url = u /\ \A o \in Tabs \ {t} : tab'[o] = tab[o]
    BY <1>1, <2>1, AskMoves, GoesTo
  <2> QED
    BY <2>1, <2>2, <2>3 DEF ErrandKnows, NavTypeOK
<1>2. ASSUME NEW t \in Tabs, Forward(t) PROVE ErrandKnows'
  BY <1>2, ForwardMoves, GoesTo DEF Forward, ErrandKnows, NavTypeOK
<1>3. ASSUME NEW t \in Tabs, SignInPage(t) PROVE ErrandKnows'
  BY <1>3, SignInShows, ShowsIts DEF SignInPage, ErrandKnows, NavTypeOK
<1>4. ASSUME NEW t \in Tabs, AfterSignIn(t) PROVE ErrandKnows'
  BY <1>4, AfterSignInMoves, GoesTo DEF AfterSignIn, ErrandKnows, NavTypeOK
<1>5. ASSUME NEW t \in Tabs, TenantPage(t) PROVE ErrandKnows'
  <2>1. errand' = errand /\ t \notin errand
    <3>1. errand' = errand
      BY <1>5 DEF TenantPage
    <3>2. Served(tab[t].url) \in {"tile", "panel"}
      BY <1>5, TenantPageMoves
    <3> QED
      BY <3>1, <3>2 DEF Served, ErrandKnows
  <2>2. \A o \in Tabs \ {t} : tab'[o] = tab[o]
    BY <1>5, TenantPageMoves, GoesTo, ShowsIts
  <2> QED
    BY <2>1, <2>2 DEF ErrandKnows, NavTypeOK
<1>6. ASSUME NEW t \in Tabs, ConsolePage(t) PROVE ErrandKnows'
  BY <1>6, ConsolePageMoves, GoesTo, ShowsIts DEF ConsolePage, ErrandKnows, NavTypeOK
<1>7. ASSUME NEW t \in Tabs, InvitePage(t) PROVE ErrandKnows'
  BY <1>7, InvitePageMoves, GoesTo, ShowsIts DEF InvitePage, ErrandKnows, NavTypeOK
<1>8. ASSUME NEW t \in Tabs, PlainPage(t) PROVE ErrandKnows'
  BY <1>8, ShowsIts DEF PlainPage, ErrandKnows, NavTypeOK
<1>9. ASSUME NEW t \in Tabs, LogOut(t) PROVE ErrandKnows'
  BY <1>9, LogOutMoves, LoadsIts DEF LogOut, ErrandKnows, NavTypeOK
<1>10. ASSUME NEW t \in Tabs, AcceptLink(t) PROVE ErrandKnows'
  BY <1>10, AcceptMoves, LoadsIts DEF AcceptLink, ErrandKnows, NavTypeOK
<1>11. ASSUME NEW t \in Tabs, DeclineLink(t) PROVE ErrandKnows'
  BY <1>11, DeclineMoves, LoadsIts DEF DeclineLink, ErrandKnows, NavTypeOK
<1>12. ASSUME NEW t \in Tabs, CallApi(t) PROVE ErrandKnows'
  BY <1>12 DEF CallApi, ErrandKnows
<1>13. ASSUME NEW t \in Tabs, NEW u \in Entries, Open(t, u) PROVE ErrandKnows'
  <2>1. tab'[t].url = u /\ \A o \in Tabs \ {t} : tab'[o].url = tab[o].url
    BY <1>13, OpenMoves, LoadsIts
  <2>2. errand' = IF u.page = "invite" THEN errand \cup {t} ELSE errand \ {t}
    BY <1>13 DEF Open
  <2> QED
    BY <2>1, <2>2 DEF ErrandKnows, NavTypeOK
<1>14. ASSUME NEW t \in Tabs, NEW a \in Accounts, LogIn(t, a) PROVE ErrandKnows'
  <2>1. PICK u \in Urls : Loads(t, u) /\ (tab[t].url.back = "invite" => u.page = "invite")
    BY SMTT(20), <1>14, LogInMoves
  <2>2. tab[t].url.page = "signin" /\ errand' = errand
    BY <1>14, LogInMoves DEF LogIn
  <2>3. tab'[t].url = u /\ \A o \in Tabs \ {t} : tab'[o].url = tab[o].url
    BY <2>1, LoadsIts
  <2> QED
    BY <2>1, <2>2, <2>3 DEF ErrandKnows, NavTypeOK
<1>15. ASSUME NEW t \in Tabs, NEW s \in Workspaces, SwitchWorkspace(t, s) PROVE ErrandKnows'
  BY <1>15, SwitchMoves, LoadsIts DEF SwitchWorkspace, ErrandKnows, NavTypeOK
<1>16. ASSUME SessionExpires PROVE ErrandKnows'
  BY <1>16, AfreshIs DEF SessionExpires, ErrandKnows, NavTypeOK
<1>17. ASSUME NEW s \in Workspaces, NEW status \in {"suspended", "deleted"}, ChangeStanding(s, status)
       PROVE ErrandKnows'
  BY <1>17, AfreshIs DEF ChangeStanding, ErrandKnows, NavTypeOK
<1>18. ASSUME NEW a \in Accounts, NEW s \in Workspaces, DropMember(a, s) PROVE ErrandKnows'
  BY <1>18, AfreshIs DEF DropMember, ErrandKnows, NavTypeOK
<1>19. ASSUME UNCHANGED navVars PROVE ErrandKnows'
  BY <1>19 DEF navVars, ErrandKnows
<1> QED
  BY <1>1, <1>2, <1>3, <1>4, <1>5, <1>6, <1>7, <1>8, <1>9, <1>10, <1>11, <1>12, <1>13, <1>14,
     <1>15, <1>16, <1>17, <1>18, <1>19 DEF NavNext

\* A page shows the tenant on which its calls would act.
LEMMA ShownKnowsStep ==
  ASSUME NavTypeOK, NavTypeOK', ShownKnows, NavNext \/ UNCHANGED navVars
  PROVE  ShownKnows'
<1>1. ASSUME NEW t \in Tabs, AskToSignIn(t) PROVE ShownKnows'
  <2>1. Joined' \subseteq Joined /\ standing' = standing
    BY <1>1, HealsSame DEF AskToSignIn, SameVisitor, Bounces
  <2>2. PanelsStay
    <3>1. crossed' = crossed /\ cookie' = cookie
      BY <1>1 DEF AskToSignIn, Bounces
    <3>2. tab'[t].step = "loads" /\ \A o \in Tabs \ {t} : tab'[o] = tab[o]
      BY <1>1, AskMoves, GoesTo
    <3> QED
      BY <3>1, <3>2 DEF PanelsStay
  <2> QED
    BY <2>1, <2>2, ShownStays
<1>2. ASSUME NEW t \in Tabs, Forward(t) PROVE ShownKnows'
  <2>1. Joined' \subseteq Joined /\ standing' = standing
    BY <1>2, HealsSame DEF Forward, SameVisitor, browser
  <2>2. PanelsStay
    <3>1. crossed' = crossed /\ cookie' = cookie
      BY <1>2 DEF Forward, browser
    <3>2. tab'[t].step = "loads" /\ \A o \in Tabs \ {t} : tab'[o] = tab[o]
      BY <1>2, ForwardMoves, GoesTo
    <3> QED
      BY <3>1, <3>2 DEF PanelsStay
  <2> QED
    BY <2>1, <2>2, ShownStays
<1>3. ASSUME NEW t \in Tabs, SignInPage(t) PROVE ShownKnows'
  <2>1. Joined' \subseteq Joined /\ standing' = standing
    BY <1>3, HealsSame DEF SignInPage, SameVisitor
  <2>2. PanelsStay
    <3>1. Served(tab[t].url) # "panel" /\ cookie' = cookie /\ crossed' = crossed
      BY <1>3 DEF SignInPage, Asks
    <3> QED
      BY <1>3, <3>1, SignInShows, ShowsIts DEF PanelsStay
  <2> QED
    BY <2>1, <2>2, ShownStays
<1>4. ASSUME NEW t \in Tabs, AfterSignIn(t) PROVE ShownKnows'
  <2>1. Joined' \subseteq Joined /\ standing' = standing
    BY <1>4, HealsSame DEF AfterSignIn, SameVisitor
  <2>2. PanelsStay
    <3>1. crossed' = crossed /\ cookie' = cookie
      BY <1>4 DEF AfterSignIn
    <3>2. tab'[t].step = "loads" /\ \A o \in Tabs \ {t} : tab'[o] = tab[o]
      BY <1>4, AfterSignInMoves, GoesTo
    <3> QED
      BY <3>1, <3>2 DEF PanelsStay
  <2> QED
    BY <2>1, <2>2, ShownStays
<1>5. ASSUME NEW t \in Tabs, TenantPage(t) PROVE ShownKnows'
  <2>1. Joined' = Joined /\ standing' = standing
    BY <1>5, HealsSame DEF TenantPage, SameVisitor
  <2>2. \A o \in Tabs \ {t} : tab'[o] = tab[o]
    BY <1>5, TenantPageMoves, GoesTo, ShowsIts
  <2>3. \A o \in Tabs \ {t} : o \notin crossed' =>
          o \notin crossed /\ (tab[o].url.host = "root" => cookie' = cookie)
    BY <1>5 DEF TenantPage, Remember
  <2>4. \A o : Served(tab[o].url)' = Served(tab'[o].url)
    BY DEF Served
  <2>5. ASSUME NEW o \in Tabs \ {t}, o \notin crossed', tab'[o].step = "shows", Served(tab'[o].url) = "panel",
               ApiTenant(o)' \in Joined', standing'[ApiTenant(o)'] = "active"
        PROVE  tab'[o].as = ApiTenant(o)'
    <3>1. ApiTenant(o)' = ApiTenant(o)
      BY <2>2, <2>3, <2>5 DEF ApiTenant
    <3> QED
      BY <2>1, <2>2, <2>3, <2>5, <3>1 DEF ShownKnows
  <2>6. ASSUME tab'[t].step = "shows", Served(tab'[t].url) = "panel", ApiTenant(t)' \in Joined'
        PROVE  tab'[t].as = ApiTenant(t)'
    <3>1. PICK s \in Current(tab[t].url) :
            /\ Resolved(s) \in Workspaces \cup {Nowhere} /\ Shows(t, Resolved(s))
            /\ (Served(tab[t].url) = "panel" => Resolved(s) # Nowhere)
      BY <1>5, <2>6, TenantPageMoves, GoesTo
    <3>2. tab'[t].url = tab[t].url /\ tab'[t].as = Resolved(s)
      BY <3>1, ShowsIts
    <3>3. Resolved(s) = s
      BY <2>6, <3>1, <3>2 DEF Resolved
    <3>4. ApiTenant(t)' = HeaderSlug(tab[t].url)
      <4>1. CASE tab[t].url.host = "root"
        <5>1. tab[t].url.page = "panel"
          BY <2>6, <3>2, <4>1 DEF Served
        <5>2. TenantPath(tab[t].url)
          BY <4>1, <5>1 DEF TenantPath
        <5>3. cookie' = tab[t].url.slug
          BY <1>5, <5>2 DEF TenantPage, Remember
        <5> QED
          BY <3>2, <4>1, <5>2, <5>3 DEF ApiTenant, HeaderSlug
      <4>2. CASE tab[t].url.host # "root"
        BY <3>2, <4>2 DEF ApiTenant, HeaderSlug
      <4> QED
        BY <4>1, <4>2
    <3>5. s = HeaderSlug(tab[t].url)
      BY <2>1, <2>6, <3>1, <3>4 DEF Current
    <3> QED
      BY <3>2, <3>3, <3>4, <3>5
  <2> QED
    BY <2>4, <2>5, <2>6 DEF ShownKnows
<1>6. ASSUME NEW t \in Tabs, ConsolePage(t) PROVE ShownKnows'
  <2>1. Joined' \subseteq Joined /\ standing' = standing
    BY <1>6, HealsSame DEF ConsolePage, SameVisitor, browser
  <2>2. PanelsStay
    <3>1. Served(tab[t].url) # "panel" /\ cookie' = cookie /\ crossed' = crossed
      BY <1>6 DEF ConsolePage, Asks, browser
    <3> QED
      BY <1>6, <3>1, ConsolePageMoves, GoesTo, ShowsIts DEF PanelsStay
  <2> QED
    BY <2>1, <2>2, ShownStays
<1>7. ASSUME NEW t \in Tabs, InvitePage(t) PROVE ShownKnows'
  <2>1. Joined' \subseteq Joined /\ standing' = standing
    BY <1>7, HealsSame DEF InvitePage, SameVisitor, browser
  <2>2. PanelsStay
    <3>1. Served(tab[t].url) # "panel" /\ cookie' = cookie /\ crossed' = crossed
      BY <1>7 DEF InvitePage, Asks, browser
    <3> QED
      BY <1>7, <3>1, InvitePageMoves, GoesTo, ShowsIts DEF PanelsStay
  <2> QED
    BY <2>1, <2>2, ShownStays
<1>8. ASSUME NEW t \in Tabs, PlainPage(t) PROVE ShownKnows'
  <2>1. Joined' \subseteq Joined /\ standing' = standing
    BY <1>8, HealsSame DEF PlainPage, SameVisitor
  <2>2. PanelsStay
    <3>1. Served(tab[t].url) # "panel" /\ cookie' = cookie /\ crossed' = crossed /\ Shows(t, Nowhere)
      BY <1>8 DEF PlainPage, Asks
    <3> QED
      BY <1>8, <3>1, ShowsIts DEF PanelsStay
  <2> QED
    BY <2>1, <2>2, ShownStays
<1>9. ASSUME NEW t \in Tabs, LogOut(t) PROVE ShownKnows'
  BY <1>9 DEF LogOut, ShownKnows
<1>10. ASSUME NEW t \in Tabs, AcceptLink(t) PROVE ShownKnows'
  BY <1>10 DEF AcceptLink, ShownKnows
<1>11. ASSUME NEW t \in Tabs, DeclineLink(t) PROVE ShownKnows'
  <2>1. Joined' \subseteq Joined /\ standing' = standing
    BY <1>11, HealsSame DEF DeclineLink, SameVisitor, browser
  <2>2. PanelsStay
    BY <1>11, DeclineMoves, LoadsIts DEF DeclineLink, browser, PanelsStay
  <2> QED
    BY <2>1, <2>2, ShownStays
<1>12. ASSUME NEW t \in Tabs, CallApi(t) PROVE ShownKnows'
  BY <1>12 DEF CallApi, browser, tenants, ShownKnows, ApiTenant, Joined, SignedIn
<1>13. ASSUME NEW t \in Tabs, NEW u \in Entries, Open(t, u) PROVE ShownKnows'
  <2>1. Joined' \subseteq Joined /\ standing' = standing
    BY <1>13 DEF Open, browser, tenants, Joined, SignedIn
  <2>2. PanelsStay
    <3>1. u \in Urls
      BY EntriesAre
    <3>2. Loads(t, u) /\ cookie' = cookie /\ crossed' = crossed
      BY <1>13 DEF Open, browser
    <3> QED
      BY <3>1, <3>2, LoadsIts DEF PanelsStay
  <2> QED
    BY <2>1, <2>2, ShownStays
<1>14. ASSUME NEW t \in Tabs, NEW a \in Accounts, LogIn(t, a) PROVE ShownKnows'
  BY <1>14 DEF LogIn, ShownKnows
<1>15. ASSUME NEW t \in Tabs, NEW s \in Workspaces, SwitchWorkspace(t, s) PROVE ShownKnows'
  <2>1. Joined' \subseteq Joined /\ standing' = standing
    BY <1>15, HealsSame DEF SwitchWorkspace, SameVisitor, browser
  <2>2. PanelsStay
    BY <1>15, SwitchMoves, LoadsIts DEF SwitchWorkspace, browser, PanelsStay
  <2> QED
    BY <2>1, <2>2, ShownStays
<1>16. ASSUME SessionExpires PROVE ShownKnows'
  <2>1. Joined' \subseteq Joined /\ standing' = standing
    BY <1>16, NavigationAssumption DEF SessionExpires, Joined, SignedIn, tenants
  <2>2. PanelsStay
    BY <1>16, AfreshIs DEF SessionExpires, PanelsStay
  <2> QED
    BY <2>1, <2>2, ShownStays
<1>17. ASSUME NEW s \in Workspaces, NEW status \in {"suspended", "deleted"}, ChangeStanding(s, status)
       PROVE ShownKnows'
  BY <1>17 DEF ChangeStanding, ShownKnows
<1>18. ASSUME NEW a \in Accounts, NEW s \in Workspaces, DropMember(a, s) PROVE ShownKnows'
  BY <1>18 DEF DropMember, ShownKnows
<1>19. ASSUME UNCHANGED navVars PROVE ShownKnows'
  BY <1>19 DEF navVars, browser, tenants, ShownKnows, ApiTenant, Joined, SignedIn
<1> QED
  BY <1>1, <1>2, <1>3, <1>4, <1>5, <1>6, <1>7, <1>8, <1>9, <1>10, <1>11, <1>12, <1>13, <1>14,
     <1>15, <1>16, <1>17, <1>18, <1>19 DEF NavNext

\* So a call acts on the tenant shown.
LEMMA ActsOnShownStep ==
  ASSUME NavTypeOK, NavTypeOK', ShownKnows, ActsOnShown, NavNext \/ UNCHANGED navVars
  PROVE  ActsOnShown'
<1>1. ASSUME NEW t \in Tabs, AskToSignIn(t) PROVE ActsOnShown'
  <2>1. crossed' = crossed /\ tab[t].step = "loads"
    BY <1>1, AskMoves DEF AskToSignIn, Bounces
  <2> QED
    BY <1>1, <2>1, AskMoves, GoesTo, ActsStay
<1>2. ASSUME NEW t \in Tabs, Forward(t) PROVE ActsOnShown'
  <2>1. crossed' = crossed /\ tab[t].step = "loads"
    BY <1>2, ForwardMoves DEF Forward
  <2> QED
    BY <1>2, <2>1, ForwardMoves, GoesTo, ActsStay
<1>3. ASSUME NEW t \in Tabs, SignInPage(t) PROVE ActsOnShown'
  BY <1>3 DEF SignInPage, Shows, NavTypeOK, ActsOnShown
<1>4. ASSUME NEW t \in Tabs, AfterSignIn(t) PROVE ActsOnShown'
  <2>1. crossed' = crossed /\ tab[t].step = "loads"
    BY <1>4, AfterSignInMoves DEF AfterSignIn
  <2> QED
    BY <1>4, <2>1, AfterSignInMoves, GoesTo, ActsStay
<1>5. ASSUME NEW t \in Tabs, TenantPage(t) PROVE ActsOnShown'
  <2>1. \A o \in Tabs \ {t} : o \notin crossed' => o \notin crossed
    BY <1>5 DEF TenantPage, Remember
  <2>2. /\ tab'[t].step = "shows" => acted'[t] = Nowhere
        /\ \A o \in Tabs \ {t} : tab'[o] = tab[o] /\ acted'[o] = acted[o]
    BY <1>5, TenantPageMoves, GoesTo, ShowsIts
  <2> QED
    BY <2>1, <2>2, ActsStay
<1>6. ASSUME NEW t \in Tabs, ConsolePage(t) PROVE ActsOnShown'
  BY <1>6, ConsolePageMoves, GoesTo, ShowsIts, ActsStay DEF ConsolePage
<1>7. ASSUME NEW t \in Tabs, InvitePage(t) PROVE ActsOnShown'
  BY <1>7, InvitePageMoves, GoesTo, ShowsIts, ActsStay DEF InvitePage
<1>8. ASSUME NEW t \in Tabs, PlainPage(t) PROVE ActsOnShown'
  BY <1>8 DEF PlainPage, Shows, NavTypeOK, ActsOnShown
<1>9. ASSUME NEW t \in Tabs, LogOut(t) PROVE ActsOnShown'
  BY <1>9 DEF LogOut, ActsOnShown
<1>10. ASSUME NEW t \in Tabs, AcceptLink(t) PROVE ActsOnShown'
  BY <1>10 DEF AcceptLink, ActsOnShown
<1>11. ASSUME NEW t \in Tabs, DeclineLink(t) PROVE ActsOnShown'
  BY <1>11 DEF DeclineLink, Acts, Afresh, Loads, NavTypeOK, TabState, ActsOnShown
<1>12. ASSUME NEW t \in Tabs, CallApi(t) PROVE ActsOnShown'
  BY <1>12 DEF CallApi, ShownKnows, ApiTenant, ActsOnShown
<1>13. ASSUME NEW t \in Tabs, NEW u \in Entries, Open(t, u) PROVE ActsOnShown'
  BY <1>13 DEF Open, Afresh, Loads, NavTypeOK, TabState, ActsOnShown
<1>14. ASSUME NEW t \in Tabs, NEW a \in Accounts, LogIn(t, a) PROVE ActsOnShown'
  BY <1>14 DEF LogIn, ActsOnShown
<1>15. ASSUME NEW t \in Tabs, NEW s \in Workspaces, SwitchWorkspace(t, s) PROVE ActsOnShown'
  BY <1>15 DEF SwitchWorkspace, tenants, Afresh, Loads, NavTypeOK, TabState, ActsOnShown
<1>16. ASSUME SessionExpires PROVE ActsOnShown'
  BY SMTT(20), <1>16 DEF SessionExpires, Afresh, NavTypeOK, TabState, ActsOnShown
<1>17. ASSUME NEW s \in Workspaces, NEW status \in {"suspended", "deleted"}, ChangeStanding(s, status)
       PROVE ActsOnShown'
  BY <1>17 DEF ChangeStanding, ActsOnShown
<1>18. ASSUME NEW a \in Accounts, NEW s \in Workspaces, DropMember(a, s) PROVE ActsOnShown'
  BY <1>18 DEF DropMember, ActsOnShown
<1>19. ASSUME UNCHANGED navVars PROVE ActsOnShown'
  BY <1>19 DEF navVars, ActsOnShown
<1> QED
  BY <1>1, <1>2, <1>3, <1>4, <1>5, <1>6, <1>7, <1>8, <1>9, <1>10, <1>11, <1>12, <1>13, <1>14,
     <1>15, <1>16, <1>17, <1>18, <1>19 DEF NavNext

\* Redirects done and to come are at most MaxHops together.
LEMMA HopsCountStep ==
  ASSUME NavTypeOK, NavTypeOK', HopsCount, NavNext \/ UNCHANGED navVars
  PROVE  HopsCount'
<1>1. ASSUME NEW t \in Tabs, AskToSignIn(t) PROVE HopsCount'
  <2>1. SameVisitor
    BY <1>1, HealsSame DEF AskToSignIn, Bounces
  <2>2. PICK u \in Urls : Goes(t, u) /\ u.host = tab[t].url.host /\ u.page = "signin"
    BY <1>1, AskMoves
  <2>3. Left(u) < Left(tab[t].url) /\ ~Lost(tab[t].url)
    BY <1>1, <2>2, AskMoves DEF Left, Public, Lost, Joined
  <2> QED
    BY <1>1, <2>1, <2>2, <2>3, AskMoves, GoesDown
<1>2. ASSUME NEW t \in Tabs, Forward(t) PROVE HopsCount'
  <2>1. SameVisitor
    BY <1>2, HealsSame DEF Forward, browser
  <2>2. ~Lost(tab[t].url)
    BY <1>2, ForwardMoves DEF Lost
  <2> QED
    BY <1>2, <2>1, <2>2, ForwardMoves, GoesDown
<1>3. ASSUME NEW t \in Tabs, SignInPage(t) PROVE HopsCount'
  <2>1. SameVisitor
    BY <1>3, HealsSame DEF SignInPage
  <2> QED
    BY <1>3, <2>1, SignInShows, ShowsEnds
<1>4. ASSUME NEW t \in Tabs, AfterSignIn(t) PROVE HopsCount'
  <2>1. SameVisitor
    BY <1>4, HealsSame DEF AfterSignIn
  <2>2. ~Lost(tab[t].url)
    BY <1>4, AfterSignInMoves DEF Lost, HopsCount
  <2> QED
    BY <1>4, <2>1, <2>2, AfterSignInMoves, GoesDown
<1>5. ASSUME NEW t \in Tabs, TenantPage(t) PROVE HopsCount'
  <2>1. SameVisitor
    BY <1>5, HealsSame DEF TenantPage
  <2> QED
    BY <1>5, <2>1, TenantPageMoves, GoesDown, ShowsEnds
<1>6. ASSUME NEW t \in Tabs, ConsolePage(t) PROVE HopsCount'
  <2>1. SameVisitor
    BY <1>6, HealsSame DEF ConsolePage, browser
  <2> QED
    BY <1>6, <2>1, ConsolePageMoves, GoesDown, ShowsEnds
<1>7. ASSUME NEW t \in Tabs, InvitePage(t) PROVE HopsCount'
  <2>1. SameVisitor
    BY <1>7, HealsSame DEF InvitePage, browser
  <2> QED
    BY <1>7, <2>1, InvitePageMoves, GoesDown, ShowsEnds
<1>8. ASSUME NEW t \in Tabs, PlainPage(t) PROVE HopsCount'
  <2>1. SameVisitor
    BY <1>8, HealsSame DEF PlainPage
  <2> QED
    BY <1>8, <2>1, ShowsEnds DEF PlainPage
<1>9. ASSUME NEW t \in Tabs, LogOut(t) PROVE HopsCount'
  <2>1. \A o \in Tabs : /\ tab'[o].hops = 0
                        /\ tab'[o].url.host = "admin" => tab'[o].url.page # "redirect"
    BY <1>9, LogOutMoves, LoadsIts DEF HopsCount
  <2> QED
    BY <2>1, AfreshCounts
<1>10. ASSUME NEW t \in Tabs, AcceptLink(t) PROVE HopsCount'
  <2>1. \A o \in Tabs : /\ tab'[o].hops = 0
                        /\ tab'[o].url.host = "admin" => tab'[o].url.page # "redirect"
    BY <1>10, AcceptMoves, LoadsIts DEF HopsCount
  <2> QED
    BY <2>1, AfreshCounts
<1>11. ASSUME NEW t \in Tabs, DeclineLink(t) PROVE HopsCount'
  <2>1. \A o \in Tabs : /\ tab'[o].hops = 0
                        /\ tab'[o].url.host = "admin" => tab'[o].url.page # "redirect"
    BY <1>11, DeclineMoves, LoadsIts DEF HopsCount
  <2> QED
    BY <2>1, AfreshCounts
<1>12. ASSUME NEW t \in Tabs, CallApi(t) PROVE HopsCount'
  <2>1. SameVisitor
    BY <1>12, HealsSame DEF CallApi, browser
  <2> QED
    BY <1>12, <2>1, CountsNext DEF CallApi, HopsCount
<1>13. ASSUME NEW t \in Tabs, NEW u \in Entries, Open(t, u) PROVE HopsCount'
  <2>1. \A o \in Tabs : /\ tab'[o].hops = 0
                        /\ tab'[o].url.host = "admin" => tab'[o].url.page # "redirect"
    BY <1>13, OpenMoves, LoadsIts DEF HopsCount
  <2> QED
    BY <2>1, AfreshCounts
<1>14. ASSUME NEW t \in Tabs, NEW a \in Accounts, LogIn(t, a) PROVE HopsCount'
  <2>1. \A o \in Tabs : /\ tab'[o].hops = 0
                        /\ tab'[o].url.host = "admin" => tab'[o].url.page # "redirect"
    BY <1>14, LogInMoves, LoadsIts DEF HopsCount
  <2> QED
    BY <2>1, AfreshCounts
<1>15. ASSUME NEW t \in Tabs, NEW s \in Workspaces, SwitchWorkspace(t, s) PROVE HopsCount'
  <2>1. \A o \in Tabs : /\ tab'[o].hops = 0
                        /\ tab'[o].url.host = "admin" => tab'[o].url.page # "redirect"
    BY <1>15, SwitchMoves, LoadsIts DEF HopsCount
  <2> QED
    BY <2>1, AfreshCounts
<1>16. ASSUME SessionExpires PROVE HopsCount'
  <2>1. \A o \in Tabs : /\ tab'[o].hops = 0
                        /\ tab'[o].url.host = "admin" => tab'[o].url.page # "redirect"
    BY <1>16, AfreshIs DEF SessionExpires, HopsCount
  <2> QED
    BY <2>1, AfreshCounts
<1>17. ASSUME NEW s \in Workspaces, NEW status \in {"suspended", "deleted"}, ChangeStanding(s, status)
       PROVE HopsCount'
  <2>1. \A o \in Tabs : /\ tab'[o].hops = 0
                        /\ tab'[o].url.host = "admin" => tab'[o].url.page # "redirect"
    BY <1>17, AfreshIs DEF ChangeStanding, HopsCount
  <2> QED
    BY <2>1, AfreshCounts
<1>18. ASSUME NEW a \in Accounts, NEW s \in Workspaces, DropMember(a, s) PROVE HopsCount'
  <2>1. \A o \in Tabs : /\ tab'[o].hops = 0
                        /\ tab'[o].url.host = "admin" => tab'[o].url.page # "redirect"
    BY <1>18, AfreshIs DEF DropMember, HopsCount
  <2> QED
    BY <2>1, AfreshCounts
<1>19. ASSUME UNCHANGED navVars PROVE HopsCount'
  <2>1. SameVisitor
    BY <1>19, HealsSame DEF navVars, browser
  <2> QED
    BY <1>19, <2>1, CountsNext DEF navVars, HopsCount
<1> QED
  BY <1>1, <1>2, <1>3, <1>4, <1>5, <1>6, <1>7, <1>8, <1>9, <1>10, <1>11, <1>12, <1>13, <1>14,
     <1>15, <1>16, <1>17, <1>18, <1>19 DEF NavNext

\* The inductive invariant of the browser.
LEMMA NavInvariant == NavSpec => []NavInv
<1>1. NavInit => NavInv
  <2> SUFFICES ASSUME NavInit PROVE NavInv
    OBVIOUS
  <2>1. Root("home") \in Urls
    BY DEF Root, Address, Urls, NavPages
  <2>2. NavTypeOK
    BY <2>1, NavigationAssumption DEF NavInit, NavTypeOK, TabState
  <2>3. ErrandKnows /\ ShownKnows /\ ActsOnShown
    BY DEF NavInit, ErrandKnows, ShownKnows, ActsOnShown, Served, Root, Address
  <2>4. HopsCount
    BY DEF NavInit, HopsCount, Root, Address
  <2> QED
    BY <2>2, <2>3, <2>4 DEF NavInv
<1>2. NavInv /\ [NavNext]_navVars => NavInv'
  BY NavTypeStep, ErrandKnowsStep, ShownKnowsStep, ActsOnShownStep, HopsCountStep DEF NavInv
<1> QED
  BY <1>1, <1>2, PTL DEF NavSpec

\* Every variable of the browser keeps its type (NavTypeOK).
THEOREM NavTypeCorrect == NavSpec => []NavTypeOK
<1>1. NavInv => NavTypeOK
  BY DEF NavInv
<1> QED
  BY <1>1, NavInvariant, PTL

\* For any tabs, tenants and accounts, and any bound above four: redirects come to
\* an end (middleware.ts, t/layout.tsx, auth/redirect).
THEOREM RedirectsStop == NavSpec => []RedirectsEnd
<1>1. NavInv => RedirectsEnd
  <2> SUFFICES ASSUME NavInv, NEW t \in Tabs, tab[t].hops = MaxHops PROVE Lost(tab[t].url)
    BY DEF RedirectsEnd, Lost
  <2>1. tab[t] \in TabState
    BY DEF NavInv, NavTypeOK
  <2>2. tab[t].step = "loads"
    BY <2>1, NavigationAssumption DEF NavInv, HopsCount, TabState
  <2>3. Left(tab[t].url) \in 0..4
    BY <2>1, LeftIsSmall DEF TabState
  <2> QED
    BY <2>2, <2>3, NavigationAssumption DEF NavInv, HopsCount
<1> QED
  BY <1>1, NavInvariant, PTL

\* For any tabs, tenants and accounts: what a page asks of the API is done to the
\* tenant that the page shows (middleware.ts, server-tenant.ts).
THEOREM CallsActOnShown == NavSpec => []ActsOnShown
<1>1. NavInv => ActsOnShown
  BY DEF NavInv
<1> QED
  BY <1>1, NavInvariant, PTL

\* For any tabs, tenants and accounts: a visitor who follows an invitation comes to
\* it (middleware.ts, signin/page.tsx, keycloak-logout).
THEOREM InvitationsSurvive == NavSpec => []InviteSurvives
<1>1. NavInv => InviteSurvives
  BY DEF NavInv, ErrandKnows, InviteSurvives
<1> QED
  BY <1>1, NavInvariant, PTL

(***************************************************************************)
(* Convergence                                                             *)
(***************************************************************************)

(* The members a pass has read are those it has still to look for, the one it *)
(* is at and those whose account it knows.                                    *)
MembersKnow ==
  /\ pass.step \in {"idle", "reads"} => pass.known = {} /\ pass.at = {}
  /\ pass.step = "users" => pass.at = {}
  /\ pass.step \in {"create", "replace"} => \E u \in People : pass.at = {u}
  /\ pass.step \in {"users", "create", "replace"} =>
       InTeam(pass) = pass.todo \cup pass.at \cup pass.known
  /\ pass.step \in {"groups", "grants"} => pass.known = InTeam(pass)

(* An account the pass knows is as the team was, unless the app made it.      *)
AccountsKnow == \A u \in pass.known \ pass.raced : account[u] = Desired(pass, u)

(* What the groups, and the assignments, lack is still to be done.            *)
GroupsKnow ==
  pass.step = "groups" =>
    /\ ~native /\ pass.todo \subseteq RolesBound(pass) /\ pass.stale \cap RolesBound(pass) = {}
    /\ \A r \in SyncRoles :
         IF r \in RolesBound(pass) THEN r \in pass.todo \/ groups[r] = MembersOf(pass, r)
         ELSE r \in pass.stale \/ groups[r] = NoGroup

GrantsKnow ==
  pass.step = "grants" => native /\ assigned \cup pass.todo = pass.had \cup Due(pass)

ConvInv == ConvTypeOK /\ MembersKnow /\ AccountsKnow /\ GroupsKnow /\ GrantsKnow

-----------------------------------------------------------------------------
(* What a pass is to bring about depends on what it has read and knows.       *)
LEMMA TeamStays ==
  ASSUME pass'.place = pass.place
  PROVE  InTeam(pass)' = InTeam(pass) /\ \A u : Desired(pass, u)' = Desired(pass, u)
BY DEF InTeam, Desired

\* Who is in the team depends on what the pass read.
LEMMA MembersStay ==
  ASSUME pass'.known = pass.known, pass'.held = pass.held
  PROVE  RolesBound(pass)' = RolesBound(pass) /\ \A r : MembersOf(pass, r)' = MembersOf(pass, r)
<1>1. \A r : MembersOf(pass, r)' = MembersOf(pass, r)
  BY DEF MembersOf, Bound
<1> QED
  BY <1>1 DEF RolesBound

\* So do the assignments that are due.
LEMMA DueIsRead ==
  ASSUME NEW p, pass'.known = p.known, pass'.held = p.held, pass'.offered = p.offered, codes' = codes
  PROVE  Due(pass)' = Due(p)
<1>1. \A r : Tier(r)' = Tier(r)
  BY DEF Tier
<1>2. Explicit(pass)' = Explicit(p)
  BY DEF Explicit
<1> QED
  BY <1>1, <1>2 DEF Due

\* And those are still due whose pass has read the same.
LEMMA DueStays ==
  ASSUME pass'.known = pass.known, pass'.held = pass.held, pass'.offered = pass.offered, codes' = codes
  PROVE  Due(pass)' = Due(pass)
BY DueIsRead

\* What is due has its roles from the catalog.
LEMMA DueIsOffered ==
  ASSUME ConvTypeOK, NEW roles \in SUBSET Catalog
  PROVE  Due([pass EXCEPT !.offered = roles]) \subseteq People \X Catalog
<1>1. [pass EXCEPT !.offered = roles].known \subseteq People /\ [pass EXCEPT !.offered = roles].offered = roles
  BY DEF ConvTypeOK, ConvPass
<1> QED
  BY <1>1 DEF Due

\* The cardinalities that choosing one at a time needs.
LEMMA SmallSets == Cardinality({}) = 0 /\ \A u : Cardinality({u}) = 1
BY FS_EmptySet, FS_Singleton

\* Every step of a pass keeps the types.
LEMMA ConvTypeStep ==
  ASSUME ConvTypeOK, MembersKnow, ConvNext \/ UNCHANGED convVars
  PROVE  ConvTypeOK'
<1>1. ASSUME StartPass PROVE ConvTypeOK'
  <2>1. pass' \in ConvPass
    BY <1>1 DEF StartPass, ConvPass, Idle, Places
  <2>2. Cardinality(pass'.at) <= 1
    BY <1>1, SmallSets DEF StartPass, Idle
  <2>3. UNCHANGED <<place, held, codes, native>> /\ edits' = edits
    BY <1>1 DEF StartPass, team
  <2>4. /\ account' \in [People -> AppAccount \cup {NoAccount}]
        /\ groups' \in [SyncRoles -> (SUBSET People) \cup {NoGroup}]
        /\ assigned' \subseteq People \X Catalog
    BY <1>1 DEF StartPass, app, ConvTypeOK
  <2> QED
    BY <2>1, <2>2, <2>3, <2>4 DEF ConvTypeOK
<1>2. ASSUME Reads("team") PROVE ConvTypeOK'
  <2>1. pass' \in ConvPass
    BY ZenonT(30), <1>2 DEF Reads, ConvTypeOK, ConvPass, InTeam
  <2>2. Cardinality(pass'.at) <= 1
    BY <1>2, SmallSets DEF Reads, ConvTypeOK, ConvPass, InTeam
  <2>3. UNCHANGED <<place, held, codes, native>> /\ edits' = edits
    BY <1>2 DEF Reads, team
  <2>4. /\ account' \in [People -> AppAccount \cup {NoAccount}]
        /\ groups' \in [SyncRoles -> (SUBSET People) \cup {NoGroup}]
        /\ assigned' \subseteq People \X Catalog
    BY <1>2 DEF Reads, app, ConvTypeOK
  <2> QED
    BY <2>1, <2>2, <2>3, <2>4 DEF ConvTypeOK
<1>3. ASSUME Reads("bindings") PROVE ConvTypeOK'
  <2>1. pass' \in ConvPass
    BY ZenonT(30), <1>3 DEF Reads, ConvTypeOK, ConvPass, InTeam
  <2>2. Cardinality(pass'.at) <= 1
    BY <1>3, SmallSets DEF Reads, ConvTypeOK, ConvPass, InTeam
  <2>3. UNCHANGED <<place, held, codes, native>> /\ edits' = edits
    BY <1>3 DEF Reads, team
  <2>4. /\ account' \in [People -> AppAccount \cup {NoAccount}]
        /\ groups' \in [SyncRoles -> (SUBSET People) \cup {NoGroup}]
        /\ assigned' \subseteq People \X Catalog
    BY <1>3 DEF Reads, app, ConvTypeOK
  <2> QED
    BY <2>1, <2>2, <2>3, <2>4 DEF ConvTypeOK
<1>4. ASSUME ListGroups PROVE ConvTypeOK'
  <2>1. pass' \in ConvPass
    BY ZenonT(30), <1>4 DEF ListGroups, ConvTypeOK, ConvPass, RolesBound
  <2>2. Cardinality(pass'.at) <= 1
    BY <1>4, SmallSets DEF ListGroups, ConvTypeOK
  <2>3. UNCHANGED <<place, held, codes, native>> /\ edits' = edits
    BY <1>4 DEF ListGroups, team
  <2>4. /\ account' \in [People -> AppAccount \cup {NoAccount}]
        /\ groups' \in [SyncRoles -> (SUBSET People) \cup {NoGroup}]
        /\ assigned' \subseteq People \X Catalog
    BY <1>4 DEF ListGroups, app, ConvTypeOK
  <2> QED
    BY <2>1, <2>2, <2>3, <2>4 DEF ConvTypeOK
<1>5. ASSUME PassFails PROVE ConvTypeOK'
  <2>1. pass' \in ConvPass
    BY <1>5 DEF PassFails, ConvPass, Idle, Places
  <2>2. Cardinality(pass'.at) <= 1
    BY <1>5, SmallSets DEF PassFails, Idle
  <2>3. UNCHANGED <<place, held, codes, native>> /\ edits' = edits
    BY <1>5 DEF PassFails, team
  <2>4. /\ account' \in [People -> AppAccount \cup {NoAccount}]
        /\ groups' \in [SyncRoles -> (SUBSET People) \cup {NoGroup}]
        /\ assigned' \subseteq People \X Catalog
    BY <1>5 DEF PassFails, app, ConvTypeOK
  <2> QED
    BY <2>1, <2>2, <2>3, <2>4 DEF ConvTypeOK
<1>6. ASSUME NEW u \in People, FindUser(u) PROVE ConvTypeOK'
  <2>1. pass' \in ConvPass
    BY <1>6 DEF FindUser, ConvTypeOK, ConvPass
  <2>2. Cardinality(pass'.at) <= 1
    <3>1. pass'.at = pass.at \/ pass'.at = {u}
      BY <1>6 DEF FindUser, ConvTypeOK, ConvPass
    <3>2. Cardinality(pass.at) <= 1
      BY DEF ConvTypeOK
    <3> QED
      BY <3>1, <3>2, SmallSets
  <2>3. UNCHANGED <<place, held, codes, native>> /\ edits' = edits
    BY <1>6 DEF FindUser, team
  <2>4. /\ account' \in [People -> AppAccount \cup {NoAccount}]
        /\ groups' \in [SyncRoles -> (SUBSET People) \cup {NoGroup}]
        /\ assigned' \subseteq People \X Catalog
    BY <1>6 DEF FindUser, app, ConvTypeOK
  <2> QED
    BY <2>1, <2>2, <2>3, <2>4 DEF ConvTypeOK
<1>7. ASSUME NEW u \in People, WriteUser(u) PROVE ConvTypeOK'
  <2>1. pass' \in ConvPass
    BY <1>7 DEF WriteUser, ConvTypeOK, ConvPass
  <2>2. Cardinality(pass'.at) <= 1
    BY <1>7, SmallSets DEF WriteUser, ConvTypeOK, ConvPass
  <2>3. UNCHANGED <<place, held, codes, native>> /\ edits' = edits
    BY <1>7 DEF WriteUser, team
  <2>4. /\ account' \in [People -> AppAccount \cup {NoAccount}]
        /\ groups' \in [SyncRoles -> (SUBSET People) \cup {NoGroup}]
        /\ assigned' \subseteq People \X Catalog
    BY <1>7 DEF WriteUser, ConvTypeOK, Desired, AppAccount
  <2> QED
    BY <2>1, <2>2, <2>3, <2>4 DEF ConvTypeOK
<1>8. ASSUME NEW u \in People, AppCreates(u) PROVE ConvTypeOK'
  BY <1>8 DEF AppCreates, ConvTypeOK, team, AppAccount
<1>9. ASSUME NEW r \in SyncRoles, PutGroup(r) PROVE ConvTypeOK'
  <2>1. pass' \in ConvPass
    BY <1>9 DEF PutGroup, ConvTypeOK, ConvPass
  <2>2. Cardinality(pass'.at) <= 1
    BY <1>9, SmallSets DEF PutGroup, ConvTypeOK, ConvPass
  <2>3. UNCHANGED <<place, held, codes, native>> /\ edits' = edits
    BY <1>9 DEF PutGroup, team
  <2>4. /\ account' \in [People -> AppAccount \cup {NoAccount}]
        /\ groups' \in [SyncRoles -> (SUBSET People) \cup {NoGroup}]
        /\ assigned' \subseteq People \X Catalog
    BY <1>9 DEF PutGroup, ConvTypeOK, ConvPass, MembersOf
  <2> QED
    BY <2>1, <2>2, <2>3, <2>4 DEF ConvTypeOK
<1>10. ASSUME NEW r \in SyncRoles, DeleteGroup(r) PROVE ConvTypeOK'
  <2>1. pass' \in ConvPass
    BY <1>10 DEF DeleteGroup, ConvTypeOK, ConvPass
  <2>2. Cardinality(pass'.at) <= 1
    BY <1>10, SmallSets DEF DeleteGroup, ConvTypeOK, ConvPass
  <2>3. UNCHANGED <<place, held, codes, native>> /\ edits' = edits
    BY <1>10 DEF DeleteGroup, team
  <2>4. /\ account' \in [People -> AppAccount \cup {NoAccount}]
        /\ groups' \in [SyncRoles -> (SUBSET People) \cup {NoGroup}]
        /\ assigned' \subseteq People \X Catalog
    <3>1. groups' \in [SyncRoles -> (SUBSET People) \cup {NoGroup}]
      BY <1>10 DEF DeleteGroup, ConvTypeOK
    <3>2. account' = account /\ assigned' = assigned
      BY <1>10 DEF DeleteGroup
    <3> QED
      BY <3>1, <3>2 DEF ConvTypeOK
  <2> QED
    BY <2>1, <2>2, <2>3, <2>4 DEF ConvTypeOK
<1>11. ASSUME NEW u \in People, NEW n \in Catalog, Assign(u, n) PROVE ConvTypeOK'
  <2>1. pass' \in ConvPass
    BY <1>11 DEF Assign, ConvTypeOK, ConvPass
  <2>2. Cardinality(pass'.at) <= 1
    BY <1>11, SmallSets DEF Assign, ConvTypeOK, ConvPass
  <2>3. UNCHANGED <<place, held, codes, native>> /\ edits' = edits
    BY <1>11 DEF Assign, team
  <2>4. /\ account' \in [People -> AppAccount \cup {NoAccount}]
        /\ groups' \in [SyncRoles -> (SUBSET People) \cup {NoGroup}]
        /\ assigned' \subseteq People \X Catalog
    BY <1>11 DEF Assign, ConvTypeOK, ConvPass
  <2> QED
    BY <2>1, <2>2, <2>3, <2>4 DEF ConvTypeOK
<1>12. ASSUME NEW u \in People, NEW to \in Places, Moves(u, to) PROVE ConvTypeOK'
  <2>1. edits' \in 0..MaxEdits
    BY <1>12, ConvergenceAssumption DEF Moves, Edits, ConvTypeOK
  <2>2. place' \in [People -> Places] /\ held' \subseteq Pairs
    BY <1>12 DEF Moves, ConvTypeOK, Pairs
  <2>3. UNCHANGED <<codes, native, app, pass>>
    BY <1>12 DEF Moves, Edits
  <2> QED
    BY <2>1, <2>2, <2>3 DEF ConvTypeOK, app
<1>13. ASSUME NEW u \in People, NEW r \in SyncRoles \cup RolesElsewhere, Binds(u, r)
       PROVE ConvTypeOK'
  <2>1. edits' \in 0..MaxEdits
    BY <1>13, ConvergenceAssumption DEF Binds, Edits, ConvTypeOK
  <2>2. place' \in [People -> Places] /\ held' \subseteq Pairs
    BY <1>13 DEF Binds, ConvTypeOK, Pairs
  <2>3. UNCHANGED <<codes, native, app, pass>>
    BY <1>13 DEF Binds, Edits
  <2> QED
    BY <2>1, <2>2, <2>3 DEF ConvTypeOK, app
<1>14. ASSUME UNCHANGED convVars PROVE ConvTypeOK'
  BY <1>14 DEF convVars, team, app, ConvTypeOK
<1>15. ASSUME NEW roles \in SUBSET Catalog, ListCatalog(roles) PROVE ConvTypeOK'
  <2>1. pass' \in ConvPass
    BY ZenonT(30), <1>15, DueIsOffered DEF ListCatalog, ConvTypeOK, ConvPass
  <2>2. Cardinality(pass'.at) <= 1
    BY <1>15, SmallSets DEF ListCatalog, ConvTypeOK
  <2>3. UNCHANGED <<place, held, codes, native>> /\ edits' = edits
    BY <1>15 DEF ListCatalog, team
  <2>4. /\ account' \in [People -> AppAccount \cup {NoAccount}]
        /\ groups' \in [SyncRoles -> (SUBSET People) \cup {NoGroup}]
        /\ assigned' \subseteq People \X Catalog
    BY <1>15 DEF ListCatalog, app, ConvTypeOK
  <2> QED
    BY <2>1, <2>2, <2>3, <2>4 DEF ConvTypeOK
<1> QED
  BY <1>1, <1>2, <1>3, <1>4, <1>5, <1>6, <1>7, <1>8, <1>9, <1>10, <1>11, <1>12, <1>13,
     <1>14, <1>15 DEF ConvNext

\* The last of the two queries lists the team as the pass has read it.
LEMMA TeamIsListed ==
  ASSUME ConvTypeOK, NEW what \in {"team", "bindings"}, Reads(what)
  PROVE  pass'.step = "users" => pass'.todo = InTeam(pass')
<1> DEFINE read == [pass EXCEPT !.unread = @ \ {what},
                                !.place = IF what = "team" THEN place ELSE @,
                                !.held = IF what = "bindings" THEN held ELSE @]
<1>1. pass'.step = "users" => pass'.todo = InTeam(read) /\ pass'.place = read.place
  BY DEF Reads, ConvTypeOK, ConvPass
<1> QED
  BY <1>1 DEF InTeam

\* A pass loses no member on its way through the list.
LEMMA MembersKnowStep ==
  ASSUME ConvTypeOK, ConvTypeOK', MembersKnow, ConvNext \/ UNCHANGED convVars
  PROVE  MembersKnow'
<1>1. ASSUME StartPass PROVE MembersKnow'
  BY <1>1 DEF StartPass, Idle, MembersKnow
<1>2. ASSUME Reads("team") PROVE MembersKnow'
  <2>1. /\ pass.step = "reads" /\ pass'.step \in {"reads", "users"}
        /\ pass'.known = pass.known /\ pass'.at = pass.at
    BY <1>2 DEF Reads, ConvTypeOK, ConvPass
  <2>2. pass'.step = "users" => pass'.todo = InTeam(pass')
    BY <1>2, TeamIsListed
  <2> QED
    BY <2>1, <2>2 DEF MembersKnow, InTeam
<1>3. ASSUME Reads("bindings") PROVE MembersKnow'
  <2>1. /\ pass.step = "reads" /\ pass'.step \in {"reads", "users"}
        /\ pass'.known = pass.known /\ pass'.at = pass.at
    BY <1>3 DEF Reads, ConvTypeOK, ConvPass
  <2>2. pass'.step = "users" => pass'.todo = InTeam(pass')
    BY <1>3, TeamIsListed
  <2> QED
    BY <2>1, <2>2 DEF MembersKnow, InTeam
<1>4. ASSUME ListGroups PROVE MembersKnow'
  <2>1. /\ pass.step = "users" /\ pass.todo = {} /\ pass'.step \in {"groups", "grants"}
        /\ pass'.known = pass.known /\ pass'.place = pass.place
    BY <1>4 DEF ListGroups, ConvTypeOK, ConvPass
  <2>2. pass.known = InTeam(pass)
    BY <2>1 DEF MembersKnow
  <2> QED
    BY <2>1, <2>2, TeamStays DEF MembersKnow
<1>5. ASSUME PassFails PROVE MembersKnow'
  BY <1>5 DEF PassFails, Idle, MembersKnow
<1>6. ASSUME NEW u \in People, FindUser(u) PROVE MembersKnow'
  BY <1>6 DEF FindUser, MembersKnow, InTeam
<1>7. ASSUME NEW u \in People, WriteUser(u) PROVE MembersKnow'
  <2>1. /\ pass.step \in {"create", "replace"} /\ pass'.step = "users" /\ pass'.todo = pass.todo
        /\ pass'.at = {} /\ pass'.known = pass.known \cup {u} /\ pass'.place = pass.place
    BY <1>7 DEF WriteUser, ConvTypeOK, ConvPass
  <2>2. pass.at = {u}
    BY <1>7 DEF WriteUser, MembersKnow
  <2> QED
    BY <2>1, <2>2, TeamStays DEF MembersKnow
<1>8. ASSUME NEW u \in People, AppCreates(u) PROVE MembersKnow'
  BY <1>8 DEF AppCreates, MembersKnow
<1>9. ASSUME NEW r \in SyncRoles, PutGroup(r) PROVE MembersKnow'
  BY <1>9 DEF PutGroup, MembersKnow, InTeam
<1>10. ASSUME NEW r \in SyncRoles, DeleteGroup(r) PROVE MembersKnow'
  BY <1>10 DEF DeleteGroup, MembersKnow, InTeam
<1>11. ASSUME NEW u \in People, NEW n \in Catalog, Assign(u, n) PROVE MembersKnow'
  BY <1>11 DEF Assign, MembersKnow, InTeam
<1>12. ASSUME NEW u \in People, NEW to \in Places, Moves(u, to) PROVE MembersKnow'
  BY <1>12 DEF Moves, Edits, MembersKnow
<1>13. ASSUME NEW u \in People, NEW r \in SyncRoles \cup RolesElsewhere, Binds(u, r)
       PROVE MembersKnow'
  BY <1>13 DEF Binds, Edits, MembersKnow
<1>14. ASSUME UNCHANGED convVars PROVE MembersKnow'
  BY <1>14 DEF convVars, MembersKnow
<1>15. ASSUME NEW roles \in SUBSET Catalog, ListCatalog(roles) PROVE MembersKnow'
  <2>1. /\ pass.step = "users" /\ pass.todo = {} /\ pass'.step \in {"groups", "grants"}
        /\ pass'.known = pass.known /\ pass'.place = pass.place
    BY <1>15 DEF ListCatalog, ConvTypeOK, ConvPass
  <2>2. pass.known = InTeam(pass)
    BY <2>1 DEF MembersKnow
  <2> QED
    BY <2>1, <2>2, TeamStays DEF MembersKnow
<1> QED
  BY <1>1, <1>2, <1>3, <1>4, <1>5, <1>6, <1>7, <1>8, <1>9, <1>10, <1>11, <1>12, <1>13,
     <1>14, <1>15 DEF ConvNext

\* An account the pass knows is as the pass has read the team.
LEMMA AccountsKnowStep ==
  ASSUME ConvTypeOK, ConvTypeOK', MembersKnow, AccountsKnow, ConvNext \/ UNCHANGED convVars
  PROVE  AccountsKnow'
<1>1. ASSUME StartPass PROVE AccountsKnow'
  BY <1>1 DEF StartPass, Idle, AccountsKnow
<1>2. ASSUME Reads("team") PROVE AccountsKnow'
  BY <1>2 DEF Reads, MembersKnow, AccountsKnow
<1>3. ASSUME Reads("bindings") PROVE AccountsKnow'
  BY <1>3 DEF Reads, MembersKnow, AccountsKnow
<1>4. ASSUME ListGroups PROVE AccountsKnow'
  <2>1. /\ account' = account /\ pass'.place = pass.place /\ pass'.raced = pass.raced
        /\ pass'.known = pass.known
    BY <1>4 DEF ListGroups, app, ConvTypeOK, ConvPass
  <2> QED
    BY <2>1, TeamStays DEF AccountsKnow
<1>5. ASSUME PassFails PROVE AccountsKnow'
  BY <1>5 DEF PassFails, Idle, AccountsKnow
<1>6. ASSUME NEW u \in People, FindUser(u) PROVE AccountsKnow'
  <2>1. account' = account /\ pass'.place = pass.place /\ pass'.raced = pass.raced
    BY <1>6 DEF FindUser, app, ConvTypeOK, ConvPass
  <2>2. pass'.known = pass.known \/ (pass'.known = pass.known \cup {u} /\ account[u] = Desired(pass, u))
    BY <1>6 DEF FindUser, Differs, ConvTypeOK, ConvPass
  <2> QED
    BY <2>1, <2>2, TeamStays DEF AccountsKnow
<1>7. ASSUME NEW u \in People, WriteUser(u) PROVE AccountsKnow'
  <2> DEFINE there == pass.step = "create" /\ account[u] # NoAccount
  <2>1. /\ pass'.place = pass.place /\ pass'.known = pass.known \cup {u}
        /\ pass'.raced = IF there THEN pass.raced \cup {u} ELSE pass.raced
    BY <1>7 DEF WriteUser, ConvTypeOK, ConvPass
  <2>2. account' = [account EXCEPT ![u] = IF there THEN @ ELSE Desired(pass, u)]
    BY <1>7 DEF WriteUser
  <2>3. \A v \in pass'.known \ pass'.raced : account'[v] = Desired(pass, v)
    BY <2>1, <2>2 DEF AccountsKnow, ConvTypeOK, ConvPass
  <2> QED
    BY <2>1, <2>3, TeamStays DEF AccountsKnow
<1>8. ASSUME NEW u \in People, AppCreates(u) PROVE AccountsKnow'
  <2>1. account[u] = NoAccount /\ pass' = pass
    BY <1>8 DEF AppCreates
  <2>2. Desired(pass, u) # NoAccount
    <3>1. Desired(pass, u) \in AppAccount
      BY DEF Desired, AppAccount
    <3> QED
      BY <3>1, ConvergenceAssumption DEF AppAccount
  <2>3. u \notin pass.known \ pass.raced
    BY <2>1, <2>2 DEF AccountsKnow
  <2>4. \A o \in People \ {u} : account'[o] = account[o]
    BY <1>8 DEF AppCreates, ConvTypeOK
  <2> QED
    BY <2>1, <2>3, <2>4, TeamStays DEF AccountsKnow, ConvTypeOK, ConvPass
<1>9. ASSUME NEW r \in SyncRoles, PutGroup(r) PROVE AccountsKnow'
  BY <1>9 DEF PutGroup, AccountsKnow, Desired
<1>10. ASSUME NEW r \in SyncRoles, DeleteGroup(r) PROVE AccountsKnow'
  BY <1>10 DEF DeleteGroup, AccountsKnow, Desired
<1>11. ASSUME NEW u \in People, NEW n \in Catalog, Assign(u, n) PROVE AccountsKnow'
  BY <1>11 DEF Assign, AccountsKnow, Desired
<1>12. ASSUME NEW u \in People, NEW to \in Places, Moves(u, to) PROVE AccountsKnow'
  BY <1>12 DEF Moves, Edits, app, AccountsKnow
<1>13. ASSUME NEW u \in People, NEW r \in SyncRoles \cup RolesElsewhere, Binds(u, r)
       PROVE AccountsKnow'
  BY <1>13 DEF Binds, Edits, app, AccountsKnow
<1>14. ASSUME UNCHANGED convVars PROVE AccountsKnow'
  BY <1>14 DEF convVars, app, AccountsKnow
<1>15. ASSUME NEW roles \in SUBSET Catalog, ListCatalog(roles) PROVE AccountsKnow'
  <2>1. /\ account' = account /\ pass'.place = pass.place /\ pass'.raced = pass.raced
        /\ pass'.known = pass.known
    BY <1>15 DEF ListCatalog, app, ConvTypeOK, ConvPass
  <2> QED
    BY <2>1, TeamStays DEF AccountsKnow
<1> QED
  BY <1>1, <1>2, <1>3, <1>4, <1>5, <1>6, <1>7, <1>8, <1>9, <1>10, <1>11, <1>12, <1>13,
     <1>14, <1>15 DEF ConvNext

\* What the groups lack is still to be done.
LEMMA GroupsKnowStep ==
  ASSUME ConvTypeOK, ConvTypeOK', GroupsKnow, ConvNext \/ UNCHANGED convVars
  PROVE  GroupsKnow'
<1>1. ASSUME StartPass PROVE GroupsKnow'
  BY <1>1 DEF StartPass, GroupsKnow
<1>2. ASSUME Reads("team") PROVE GroupsKnow'
  BY <1>2 DEF Reads, GroupsKnow
<1>3. ASSUME Reads("bindings") PROVE GroupsKnow'
  BY <1>3 DEF Reads, GroupsKnow
<1>4. ASSUME ListGroups PROVE GroupsKnow'
  <2>1. pass'.known = pass.known /\ pass'.held = pass.held /\ groups' = groups /\ native' = native
    BY <1>4 DEF ListGroups, team, app, ConvTypeOK, ConvPass
  <2>2. pass'.step = "groups" => /\ ~native /\ pass'.todo = RolesBound(pass)
                                 /\ pass'.stale = {r \in SyncRoles : groups[r] # NoGroup} \ RolesBound(pass)
    BY <1>4 DEF ListGroups, ConvTypeOK, ConvPass
  <2> QED
    BY <2>1, <2>2, MembersStay DEF GroupsKnow
<1>5. ASSUME PassFails PROVE GroupsKnow'
  BY <1>5 DEF PassFails, Idle, GroupsKnow
<1>6. ASSUME NEW u \in People, FindUser(u) PROVE GroupsKnow'
  BY <1>6 DEF FindUser, GroupsKnow
<1>7. ASSUME NEW u \in People, WriteUser(u) PROVE GroupsKnow'
  BY <1>7 DEF WriteUser, GroupsKnow
<1>8. ASSUME NEW u \in People, AppCreates(u) PROVE GroupsKnow'
  <2>1. pass' = pass /\ groups' = groups /\ native' = native
    BY <1>8 DEF AppCreates, team
  <2> QED
    BY <2>1, MembersStay DEF GroupsKnow
<1>9. ASSUME NEW r \in SyncRoles, PutGroup(r) PROVE GroupsKnow'
  <2>1. /\ pass.step = "groups" /\ pass'.step = "groups" /\ native' = native
        /\ pass'.known = pass.known /\ pass'.held = pass.held /\ pass'.stale = pass.stale
        /\ pass'.todo = pass.todo \ {r} /\ r \in pass.todo
    BY <1>9 DEF PutGroup, team, ConvTypeOK, ConvPass
  <2>2. groups'[r] = MembersOf(pass, r) /\ \A q \in SyncRoles \ {r} : groups'[q] = groups[q]
    BY <1>9 DEF PutGroup, ConvTypeOK
  <2> QED
    BY <2>1, <2>2, MembersStay DEF GroupsKnow
<1>10. ASSUME NEW r \in SyncRoles, DeleteGroup(r) PROVE GroupsKnow'
  <2>1. /\ pass.step = "groups" /\ pass'.step = "groups" /\ native' = native
        /\ pass'.known = pass.known /\ pass'.held = pass.held /\ pass'.todo = pass.todo
        /\ pass'.stale = pass.stale \ {r} /\ r \in pass.stale
    BY <1>10 DEF DeleteGroup, team, ConvTypeOK, ConvPass
  <2>2. groups'[r] = NoGroup /\ \A q \in SyncRoles \ {r} : groups'[q] = groups[q]
    BY <1>10 DEF DeleteGroup, ConvTypeOK
  <2> QED
    BY <2>1, <2>2, MembersStay DEF GroupsKnow
<1>11. ASSUME NEW u \in People, NEW n \in Catalog, Assign(u, n) PROVE GroupsKnow'
  BY <1>11 DEF Assign, GroupsKnow
<1>12. ASSUME NEW u \in People, NEW to \in Places, Moves(u, to) PROVE GroupsKnow'
  <2>1. pass' = pass /\ groups' = groups /\ native' = native
    BY <1>12 DEF Moves, Edits, app
  <2> QED
    BY <2>1, MembersStay DEF GroupsKnow
<1>13. ASSUME NEW u \in People, NEW r \in SyncRoles \cup RolesElsewhere, Binds(u, r)
       PROVE GroupsKnow'
  <2>1. pass' = pass /\ groups' = groups /\ native' = native
    BY <1>13 DEF Binds, Edits, app
  <2> QED
    BY <2>1, MembersStay DEF GroupsKnow
<1>14. ASSUME UNCHANGED convVars PROVE GroupsKnow'
  <2>1. pass' = pass /\ groups' = groups /\ native' = native
    BY <1>14 DEF convVars, team, app
  <2> QED
    BY <2>1, MembersStay DEF GroupsKnow
<1>15. ASSUME NEW roles \in SUBSET Catalog, ListCatalog(roles) PROVE GroupsKnow'
  <2>1. pass'.step = "grants"
    BY <1>15 DEF ListCatalog, ConvTypeOK, ConvPass
  <2> QED
    BY <2>1 DEF GroupsKnow
<1> QED
  BY <1>1, <1>2, <1>3, <1>4, <1>5, <1>6, <1>7, <1>8, <1>9, <1>10, <1>11, <1>12, <1>13,
     <1>14, <1>15 DEF ConvNext

\* What the assignments lack is still to be done.
LEMMA GrantsKnowStep ==
  ASSUME ConvTypeOK, ConvTypeOK', GrantsKnow, ConvNext \/ UNCHANGED convVars
  PROVE  GrantsKnow'
<1>1. ASSUME StartPass PROVE GrantsKnow'
  BY <1>1 DEF StartPass, GrantsKnow
<1>2. ASSUME Reads("team") PROVE GrantsKnow'
  BY <1>2 DEF Reads, GrantsKnow
<1>3. ASSUME Reads("bindings") PROVE GrantsKnow'
  BY <1>3 DEF Reads, GrantsKnow
<1>4. ASSUME ListGroups PROVE GrantsKnow'
  <2>1. pass'.step = "groups"
    BY <1>4 DEF ListGroups, ConvTypeOK, ConvPass
  <2> QED
    BY <2>1 DEF GrantsKnow
<1>5. ASSUME PassFails PROVE GrantsKnow'
  BY <1>5 DEF PassFails, Idle, GrantsKnow
<1>6. ASSUME NEW u \in People, FindUser(u) PROVE GrantsKnow'
  BY <1>6 DEF FindUser, GrantsKnow
<1>7. ASSUME NEW u \in People, WriteUser(u) PROVE GrantsKnow'
  BY <1>7 DEF WriteUser, GrantsKnow
<1>8. ASSUME NEW u \in People, AppCreates(u) PROVE GrantsKnow'
  <2>1. pass' = pass /\ assigned' = assigned /\ native' = native /\ codes' = codes
    BY <1>8 DEF AppCreates, team
  <2> QED
    BY <2>1, DueStays DEF GrantsKnow
<1>9. ASSUME NEW r \in SyncRoles, PutGroup(r) PROVE GrantsKnow'
  BY <1>9 DEF PutGroup, GrantsKnow
<1>10. ASSUME NEW r \in SyncRoles, DeleteGroup(r) PROVE GrantsKnow'
  BY <1>10 DEF DeleteGroup, GrantsKnow
<1>11. ASSUME NEW u \in People, NEW n \in Catalog, Assign(u, n) PROVE GrantsKnow'
  <2>1. /\ pass.step = "grants" /\ pass'.step = "grants" /\ native' = native /\ codes' = codes
        /\ pass'.known = pass.known /\ pass'.held = pass.held /\ pass'.had = pass.had
        /\ pass'.offered = pass.offered
        /\ pass'.todo = pass.todo \ {<<u, n>>} /\ assigned' = assigned \cup {<<u, n>>}
        /\ <<u, n>> \in pass.todo
    BY <1>11 DEF Assign, team, ConvTypeOK, ConvPass
  <2> QED
    BY <2>1, DueStays DEF GrantsKnow
<1>12. ASSUME NEW u \in People, NEW to \in Places, Moves(u, to) PROVE GrantsKnow'
  <2>1. pass' = pass /\ assigned' = assigned /\ native' = native /\ codes' = codes
    BY <1>12 DEF Moves, Edits, app
  <2> QED
    BY <2>1, DueStays DEF GrantsKnow
<1>13. ASSUME NEW u \in People, NEW r \in SyncRoles \cup RolesElsewhere, Binds(u, r)
       PROVE GrantsKnow'
  <2>1. pass' = pass /\ assigned' = assigned /\ native' = native /\ codes' = codes
    BY <1>13 DEF Binds, Edits, app
  <2> QED
    BY <2>1, DueStays DEF GrantsKnow
<1>14. ASSUME UNCHANGED convVars PROVE GrantsKnow'
  <2>1. pass' = pass /\ assigned' = assigned /\ native' = native /\ codes' = codes
    BY <1>14 DEF convVars, team, app
  <2> QED
    BY <2>1, DueStays DEF GrantsKnow
<1>15. ASSUME NEW roles \in SUBSET Catalog, ListCatalog(roles) PROVE GrantsKnow'
  <2> DEFINE p == [pass EXCEPT !.offered = roles]
  <2>1. /\ pass'.known = p.known /\ pass'.held = p.held /\ pass'.offered = p.offered
        /\ pass'.todo = Due(p) /\ pass'.had = assigned
    BY <1>15 DEF ListCatalog, ConvTypeOK, ConvPass
  <2>2. native /\ native' = native /\ assigned' = assigned /\ codes' = codes
    BY <1>15 DEF ListCatalog, team, app
  <2> HIDE DEF p
  <2>3. Due(pass)' = Due(p)
    BY <2>1, <2>2, DueIsRead
  <2> QED
    BY <2>1, <2>2, <2>3 DEF GrantsKnow
<1> QED
  BY <1>1, <1>2, <1>3, <1>4, <1>5, <1>6, <1>7, <1>8, <1>9, <1>10, <1>11, <1>12, <1>13,
     <1>14, <1>15 DEF ConvNext

\* The inductive invariant of a pass.
LEMMA ConvInvariant == ConvSpec => []ConvInv
<1>1. ConvInit => ConvInv
  <2> SUFFICES ASSUME ConvInit PROVE ConvInv
    OBVIOUS
  <2>1. Idle \in ConvPass
    BY DEF Idle, ConvPass, Places
  <2>2. ConvTypeOK
    <3>1. Cardinality(pass.at) <= 1
      BY SmallSets DEF ConvInit, Idle
    <3>2. edits \in 0..MaxEdits
      BY ConvergenceAssumption DEF ConvInit
    <3>3. /\ codes \in [PlatformRoles -> SUBSET {"notes:create", "notes:update", "notes:delete", "platform:admin"}]
          /\ native \in BOOLEAN /\ assigned \subseteq People \X Catalog
      BY DEF ConvInit
    <3>4. /\ place \in [People -> Places] /\ held \subseteq Pairs /\ pass \in ConvPass
          /\ account \in [People -> AppAccount \cup {NoAccount}]
          /\ groups \in [SyncRoles -> (SUBSET People) \cup {NoGroup}]
      BY <2>1 DEF ConvInit, Places
    <3> QED
      BY <2>1, <3>1, <3>2, <3>3, <3>4 DEF ConvTypeOK
  <2>3. MembersKnow /\ AccountsKnow /\ GroupsKnow /\ GrantsKnow
    BY DEF ConvInit, MembersKnow, AccountsKnow, GroupsKnow, GrantsKnow, Idle
  <2> QED
    BY <2>2, <2>3 DEF ConvInv
<1>2. ConvInv /\ [ConvNext]_convVars => ConvInv'
  BY ConvTypeStep, MembersKnowStep, AccountsKnowStep, GroupsKnowStep, GrantsKnowStep DEF ConvInv
<1> QED
  BY <1>1, <1>2, PTL DEF ConvSpec

\* Every variable of a pass keeps its type (ConvTypeOK), and the pass is at one
\* member at most.
THEOREM ConvTypeCorrect == ConvSpec => []ConvTypeOK
<1>1. ConvInv => ConvTypeOK
  BY DEF ConvInv
<1> QED
  BY <1>1, ConvInvariant, PTL

\* For any team, roles and app: a pass that ends leaves the app as the team was
\* when it read it (convergeAppInstance, convergeRiogentixRoleAssignments).
THEOREM PassesAreWhole == ConvSpec => []PassIsWhole
<1>1. ConvInv => PassIsWhole
  <2> SUFFICES ASSUME ConvInv, Done(pass) PROVE PassIsWhole
    BY DEF PassIsWhole
  <2>1. pass.step \in {"groups", "grants"} /\ pass.todo = {} /\ pass.stale = {} /\ pass.known = InTeam(pass)
    BY DEF Done, ConvInv, MembersKnow
  <2>2. \A u \in InTeam(pass) \ pass.raced : account[u] = Desired(pass, u)
    BY <2>1 DEF ConvInv, AccountsKnow
  <2>3. CASE pass.step = "grants"
    BY <2>1, <2>2, <2>3 DEF ConvInv, GrantsKnow, PassIsWhole
  <2>4. CASE pass.step = "groups"
    <3>1. ASSUME NEW r \in SyncRoles
          PROVE  MembersOf(pass, r) = {u \in InTeam(pass) : <<u, r>> \in pass.held}
      BY <2>1 DEF MembersOf, Bound
    <3>2. \A r \in SyncRoles : groups[r] = IF MembersOf(pass, r) = {} THEN NoGroup ELSE MembersOf(pass, r)
      BY <2>1, <2>4 DEF ConvInv, GroupsKnow, RolesBound
    <3> QED
      BY <2>2, <2>4, <3>1, <3>2 DEF ConvInv, GroupsKnow, PassIsWhole
  <2> QED
    BY <2>1, <2>3, <2>4
<1> QED
  BY <1>1, ConvInvariant, PTL
============================================================================
