SPECIFICATION PartsSpec
CONSTANTS
  \* TeamMembership
  Users = {o, u1, u2}
  Owner = o
  SystemRoles = {member, admin}
  Default = member
  CustomRoles = {c1, c2}
  First = c1
  AppRoles = {app}
  Names = {n1}
  Perms = {p}
  Limits = {1, 2, 3}
  Requests = {q1, q2}
  None = None
  MaxListed = 1
  MaxRequests = 3
  \* Webhooks
  Hooks = {k1}
  HookPages = {v1, v2}
  Fetches = {f1, f2}
  Deliveries = {d1}
  NoHook = NoHook
  Tries = 2
  MaxStalls = 1
SYMMETRY Interchangeable
INVARIANTS
  SeatsBounded RolesHold HooksAreTold
CHECK_DEADLOCK FALSE
