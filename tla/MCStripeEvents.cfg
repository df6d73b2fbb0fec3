CONSTANTS
  \* StripeEvents
  Updates = {u1}
  Deletions = {d1}
  Invoices = {i1}
  None = none
  Workers = {w1, w2}
  Jobs = {j1, j2}
  MaxAttempts = 2
  MaxSent = 3
  MaxFaults = 1
  \* ConsoleForms: each form on two pages, an odd input
  Views = {v1, v2}
  Inputs = {f1, f2}
  Odd = f2
  Preset = Preset
  NoLimit = NoLimit
  NoPage = NoPage
  MaxEdits = 3
  MaxSends = 2
SPECIFICATION PartsSpec
INVARIANTS RecordedIsHandled PageIsRight
PROPERTIES RedeliveryIsIdle EveryUpdateIsRecorded SavesOnlyEdits
CHECK_DEADLOCK FALSE
