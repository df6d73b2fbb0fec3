CONSTANTS
  Runs = {r1, r2}
  None = none
  Orphan = orphan
  Environments = {dev, prod}
  Jobs = {j1, j2}
  MaxPassword = 5
  MaxAttempts = 2
  MaxFaults = 0
  MaxOutages = 0
  MaxRequests = 2
SPECIFICATION Spec
INVARIANT EnvironmentsSettle
CHECK_DEADLOCK FALSE
