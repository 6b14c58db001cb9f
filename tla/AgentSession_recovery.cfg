CONSTANTS
  c1 = c1
  None = None
  Callers = {c1}
  MaxRetries = 1
  MalformedJsonMaxRetries = 1
  ReconnectMaxRetries = 2
  MaxCaps = 0
  MaxThrows = 0
  MaxInputs = 2
SPECIFICATION Spec
PROPERTIES
  RecoveryContinues
CHECK_DEADLOCK FALSE
