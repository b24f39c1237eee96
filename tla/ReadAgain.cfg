CONSTANTS
  None = None
  CollectLimit = 2
  MaxShots = 3
  MaxGenerations = 3
  Kinds = {"single", "multiple"}
SPECIFICATION SessionSpec
INVARIANT HistoryShowsItsQuestion
CHECK_DEADLOCK FALSE
