CONSTANTS
  None = None
  Workers = {w1, w2}
  Checkouts = {c1}
  Purchases = {p1}
  Devices = {d1}
  Registered = {d1}
  Packs = {k1}
  Price <- OnePrice
  Events = {e1, e2}
  References = {}
  Edits <- SomeEdits
  MaxAttempts = 2
  Budgets <- OneFailing
SPECIFICATION FairSpec
INVARIANTS
  CreditedIsSettled
PROPERTIES
  PaymentsResolve
CHECK_DEADLOCK FALSE
