CONSTANTS
  None = None
  Requests = {r1}
  Captures = {c1}
  MaxActive = 1
  Upper = 2
  Limit = 4
  Costs = {1}
  MaxFaults = 1
  MaxDay = 0
SPECIFICATION CaptureFairSpec
CHECK_DEADLOCK FALSE
PROPERTIES
  AttemptsEnd
