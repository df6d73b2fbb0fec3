CONSTANTS
  Workers = {w1}
  Requests = {r1}
  Tick = tick
  None = none
  Apps = {a1}
  Events = {e1, e2}
  Jobs = {j1, j2}
  MaxVersion = 1
  MaxAttempts = 2
  MaxFaults = 1
SPECIFICATION Spec
INVARIANT NoStrandedMarker
