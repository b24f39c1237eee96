CONSTANTS
  None = None
  Refunds = {r1}
  Amount <- Halves
  OrderAmount = 2
  Questions = 2
  Workers = {w1, w2}
  Decisions = {}
  MaxVersion = 3
  MaxRechecks = 1
  MaxAgain = 1
  MaxLost = 1
SPECIFICATION FairSpec
INVARIANTS
  ClosedNoticesAreReflected
PROPERTIES
  SnapshotsNeverGoBack
  RefundsConverge
