CONSTANTS
  Runs = {r1, r2}
  None = none
  Orphan = orphan
  Environments = {prod}
  Jobs = {j1, j2}
  MaxPassword = 5
  MaxAttempts = 2
  MaxFaults = 1
  MaxOutages = 1
  MaxRequests = 2
  Tenants = {t1, t2}
  Slugs = {s1, s2}
  Lookups = {l1}
  Saves = {w1}
  Nothing = Nothing
  MaxChanges = 4
SPECIFICATION PartsSpec
CHECK_DEADLOCK FALSE
INVARIANTS EntryIsCurrent
PROPERTIES LockIsFreed JobsEnd SuspendedIsShutOut
