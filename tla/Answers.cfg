CONSTANTS
  None = None
  \* questions: every kind of follow-up and both ways a hold can end; no daily lots, no payments
  Captures = {c1, c2, c3}
  PaidOrders = {}
  Gifts = {g1}
  InitialKind = "legacy_unknown"
  InitialGrant = 1
  DailyTrial = 1
  DailyPlus = 1
  CreditQuestions = 2
  MaxLot = 2
  TrialEligible = FALSE
  TrialLength = 1
  DayLength = 2
  DayOffset = 1
  SolveLease = 1
  ExplainLease = 1
  AnswerAge = 2
  ReapBatch = 2
  Plans <- NoPlans
  MaxTime = 3
  \* finance
  Readers = {r1, r2}
  MaxChanges = 2
  MaxOthers = 1
  MaxAttempts = 2
  MaxFailures = 1
  MaxForced = 1
SPECIFICATION PartSpec
INVARIANTS
  HoldsMatchCaptures
  CompensatesFailedRecoveries
  CleanIsCurrent
  NothingOverlooked
PROPERTIES
  KeepsEntitlement
  HoldsEnd
  FactsArrive
CHECK_DEADLOCK FALSE
