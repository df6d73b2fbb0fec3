CONSTANTS
  \* OutboxSync
  Workers = {w1}
  Requests = {r1}
  Tick = tick
  None = none
  Apps = {a1}
  Events = {e1, e2, e3}
  Jobs = {j1, j2}
  MaxVersion = 2
  MaxAttempts = 2
  MaxFaults = 1
  \* GroupSync
  Passes = {p1, p2}
  Roles = {g1}
  Members = {m1, m2}
  NoOne = nobody
  MaxCopies = 2
  MaxLost = 1
SPECIFICATION PartsSpec
SYMMETRY Symmetry
INVARIANTS AckedIsReflected GroupsAsRead
PROPERTIES SettledStaysSettled DeliverySpec
