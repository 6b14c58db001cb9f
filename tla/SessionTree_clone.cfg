CONSTANTS
  m1 = m1
  Managers = {m1}
  MaxFiles = 2
  MaxEntries = 4
  MaxFaults = 0
SPECIFICATION Spec
PROPERTIES
  CloneKeepsContext
CHECK_DEADLOCK FALSE
