CONSTANTS
  None = None
  Clients = {c1}
  QueueLimit = 1
  Allowances <- LosingWrites
SPECIFICATION ObservationSpec
INVARIANT LossesArePartial
CHECK_DEADLOCK FALSE
