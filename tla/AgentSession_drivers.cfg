CONSTANTS
  c1 = c1
  c2 = c2
  None = None
  Callers = {c1, c2}
  MaxRetries = 1
  MalformedJsonMaxRetries = 1
  ReconnectMaxRetries = 2
  MaxCaps = 1
  MaxThrows = 1
  MaxInputs = 2
SPECIFICATION Spec
INVARIANTS
  RetriesBounded
  
PROPERTIES
  SettlesEmpty
SYMMETRY CallerSymmetry
CHECK_DEADLOCK FALSE
