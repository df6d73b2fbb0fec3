CONSTANTS
  \* TenantProvision
  Runs = {r1, r2}
  None = none
  Orphan = orphan
  Environments = {prod}
  Jobs = {j1, j2}
  MaxPassword = 5
  MaxAttempts = 2
  MaxFaults = 1
  MaxOutages = 0
  MaxRequests = 3
  \* Navigation
  Tabs = {t1, t2}
  Workspaces = {s1, s2}
  Accounts = {me, boss}
  Invitee = me
  InvitedTo = s2
  Staff = {boss}
  Nobody = Nobody
  Stale = Stale
  Nowhere = Nowhere
  MaxActs = 3
  MaxHops = 5
  \* Convergence
  People = {u1, u2}
  PlatformRoles = {user}
  RolesHere = {admin, legacy}
  RolesElsewhere = {other}
  Viewer = viewer
  Developer = developer
  Admin = admin
  NoAccount = NoAccount
  NoGroup = NoGroup
  MaxEdits = 2
SPECIFICATION PartsSpec
SYMMETRY Interchangeable
CHECK_DEADLOCK FALSE
INVARIANTS
  CredentialsAgree
  RedirectsEnd ActsOnShown InviteSurvives PassIsWhole
PROPERTIES
  LeaseSpec
