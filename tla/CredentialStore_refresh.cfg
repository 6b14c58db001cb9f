CONSTANTS
  p1 = p1
  p2 = p2
  Processes = {p1, p2}
  Requests = {1}
  None = None
  Orphan = Orphan
  MaxCalls = 3
  MaxFaults = 2
SPECIFICATION FairSpec
INVARIANTS
  NoDoubleRefresh
PROPERTIES
  NothingOverwritten
  LockIsGivenBack
CHECK_DEADLOCK FALSE
