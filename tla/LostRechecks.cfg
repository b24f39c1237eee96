CONSTANTS
  None = None
  Refunds = {r1}
  Amount <- Halves
  OrderAmount = 2
  Questions = 2
  Workers = {w1}
  Decisions = {}
  MaxVersion = 2
  MaxRechecks = 1
  MaxAgain = 0
  MaxLost = 0
SPECIFICATION Spec
INVARIANTS
  RechecksReadAgain
