CONSTANTS
  None = None
  Devices = {d1, d2}
  Elsewhere = {}
  MaxBalance = 1
  MaxRestores = 0
  MaxLosses = 1
SPECIFICATION OfficialSpec
INVARIANT NoAccountIsRebuilt
CHECK_DEADLOCK FALSE
