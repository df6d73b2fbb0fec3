CONSTANTS
  \* Accounts: one visitor and the first admin's email; two requests at once
  Emails = {e1, e2}
  Slugs = {s1, s2}
  MaxIds = 4
  RootEmail = e1
  Requests = {q1, q2}
  None = None
  Pending = Pending
  MaxRequests = 3
  \* KeycloakClient
  Hosts = {h1, h2}
  Editors = {a1, a2}
  Paths = {p0, p1, p2}
  OldPath = p0
  BlankPath = BlankPath
  NoCopy = NoCopy
  MaxSaves = 4
  \* TenantSettings: two pages, a section of each kind
  Pages = {g1, g2}
  Sections = {colors, prefs, sso}
  BrandSections = {colors}
  Unbusted = {sso}
  Prefs = prefs
  Values = {0, 1}
  Default = 0
  MaxPatches = 2
  \* TenantWizard
  NewSlugs = {n1, n2}
  Batches = {b1, b2}
  Unset = Unset
  \* Checkout
  Payers = {t1, t2}
  Checkouts = {c1, c2, c3}
  NoRow = NoRow
  NoCustomer = NoCustomer
  \* RateLimit
  Requesters = {x1, x2}
  Limit = 2
  Window = 3
  Delay = 1
  LastTime = 6
  LastMember = 5
  MaxOutages = 1
  \* ResourceLimits: one limit, one page, two drains
  Fields = {pipes}
  Numbers = {v1, v2}
  Unlimited = Unlimited
  Inherited = Inherited
  Panels = {panel}
  Passes = {d1, d2}
  MaxLimitSaves = 2
  \* AppRegistry: a page of each kind, one open at a time; two requests
  Tables = {table}
  Hubs = {hub}
  Urls = {u0, u1}
  Endpoint = u0
  Nobody = Nobody
  NoInstance = NoInstance
  MaxRows = 2
  MaxAppCalls = 2
  MaxOpen = 1
  \* AppRoleSelect: two pages
  AppRoles = {r1, r2, r3}
  NoRole = NoRole
  RolePages = {k1, k2}
  MaxChoices = 3
SPECIFICATION PartsSpec
SYMMETRY Interchangeable
CHECK_DEADLOCK FALSE
INVARIANTS
  WelcomedIsWhole RefusedLeavesNothing AdminRemains
  ClientKeepsBoth
  SettingsHold
  NoneIsHalfMade PortalShowsPayer WindowBounded
  LimitsArePushed
  SelectIsRight
PROPERTIES SaveKeepsRest DeleteSparesLive
