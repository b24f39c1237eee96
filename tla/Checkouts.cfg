CONSTANTS
  None = None
  Workers = {w1, w2}
  Checkouts = {c1, c2}
  Purchases = {p1}
  Devices = {d1, d2}
  Registered = {d1, d2}
  Packs = {k1}
  Price <- OnePrice
  Events = {e1}
  References = {r1}
  Edits <- SomeEdits
  MaxAttempts = 2
  Budgets <- OneOrTwo
SPECIFICATION Spec
SYMMETRY Symmetries
INVARIANTS
  OrdersMatchPurchases
  BeneficiaryIsKept
PROPERTIES
  KeepsPromise
CHECK_DEADLOCK FALSE
