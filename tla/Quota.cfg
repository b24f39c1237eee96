CONSTANTS
  None = None
  \* lots: a trial, a renewed plan and one paid order, whose holds outlive the daily window
  Captures = {c1, c2}
  PaidOrders = {o1}
  Gifts = {}
  InitialKind = "trial"
  InitialGrant = 1
  DailyTrial = 1
  DailyPlus = 1
  CreditQuestions = 2
  MaxLot = 2
  TrialEligible = TRUE
  TrialLength = 2
  DayLength = 2
  DayOffset = 1
  SolveLease = 2
  ExplainLease = 1
  AnswerAge = 0
  ReapBatch = 1
  Plans <- RenewedPlan
  MaxTime = 3
  \* migration
  Operators = {p1, p2}
  Members = {m1, m2}
  Jobs = {j1, j2}
  Releases = {a1}
  BatchSize = 1
  MaxPauses = 2
  MaxWrites = 1
  \* account
  Devices = {d1, d2, d3}
  Elsewhere = {d3}
  MaxBalance = 1
  MaxRestores = 1
  MaxLosses = 1
SPECIFICATION PartSpec
SYMMETRY CaptureSymmetry
INVARIANTS
  RevocationComesFirst
  BalanceMatchesLots
  QuestionsConserved
  SnapshotsAreOurs
  OneRegistration
PROPERTIES
  HoldsAreEntitled
  PausedStaysDrained
  ResumesSound
  DeviceIsKept
  BalanceNeverGoesBack
CHECK_DEADLOCK FALSE
