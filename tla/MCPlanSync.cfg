SPECIFICATION PartsSpec
CONSTANTS
  u1 = u1
  d1 = d1
  a1 = a1
  pro = pro
  Updates = {u1}
  Deletions = {d1}
  Overrides = {a1}
  Start = Start
  None = None
  Free = Free
  Plans = {Free, pro}
  Carries <- CarriesDef
  Limit <- LimitDef
  Jobs = {j1, j2}
  MaxChanges = 2
  MaxUsage = 1
  MaxRollups = 1
  MaxFaults = 1
  \* AuthzCache
  Readers = {r1, r2}
  Writers = {w1}
  TTL = 2
  Gap = 1
  MaxVersion = 2
  MaxTime = 4
  MaxRedisFaults = 1
SYMMETRY Interchangeable
INVARIANTS ChangeTakesEffect PlanAgrees LockedIsOver
PROPERTY BoundedStaleness
CHECK_DEADLOCK FALSE
