CONSTANTS
  None = None
  \* captures: a retry under one capture id, two faults
  Requests = {a1, a2}
  Captures = {c1}
  MaxActive = 2
  Upper = 2
  Limit = 4
  Costs = {3}
  MaxFaults = 2
  MaxDay = 0
  \* plus
  Workers = {w1, w2}
  Checkouts = {s1, s2}
  MaxIntents = 2
  Budgets <- SomeBounds
SPECIFICATION PartSpec
INVARIANTS
  ReceiptsAreFinal
  SpendingIsNeverErased
  OneFaultIsSalvaged
  RowMatchesIntent
  PaysOnce
PROPERTIES
  CapturesEnd
  Converges
CHECK_DEADLOCK FALSE
