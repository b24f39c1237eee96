CONSTANTS
  None = None
  \* admission: three requests for one capture id, one place and one call fewer than they want
  Requests = {q1, q2, q3}
  Captures = {k1}
  MaxActive = 2
  Upper = 2
  Limit = 4
  Costs = {3}
  MaxFaults = 0
  MaxDay = 1
  \* policies
  Refunds = {r1, r2, r3}
  Amount <- Halves
  OrderAmount = 2
  Questions = 2
  Workers = {w1}
  Decisions = {x1}
  MaxVersion = 2
  MaxRechecks = 0
  MaxAgain = 0
  MaxLost = 0
  \* observation
  Clients = {c1, c2}
  QueueLimit = 1
  Allowances <- SomeAllowances
  \* session
  CollectLimit = 2
  MaxShots = 2
  MaxGenerations = 2
  Kinds = {"single", "multiple", "personality"}
SPECIFICATION PartSpec
SYMMETRY Interchangeable
INVARIANTS
  NothingLeftBehind
  BudgetRespected
  PlacesMatchHandlers
  QuestionsFollowMoney
  CompleteIsComplete
  OptOutsHold
  AskedOnce
PROPERTIES
  OnlyTheNewestAnswers
CHECK_DEADLOCK FALSE
