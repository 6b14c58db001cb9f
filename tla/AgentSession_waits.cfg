CONSTANTS
  c1 = c1
  c2 = c2
  None = None
  Callers = {c1, c2}
  MaxRetries = 1
  MalformedJsonMaxRetries = 0
  ReconnectMaxRetries = 1
  MaxCaps = 0
  MaxThrows = 0
  MaxInputs = 3
SPECIFICATION FairSpec
PROPERTIES
  DriverSettles
  AbortSettles
  CompactionStarts
CHECK_DEADLOCK FALSE
