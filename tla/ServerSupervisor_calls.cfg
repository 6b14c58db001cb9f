CONSTANTS
  i1 = i1
  c1 = c1
  c2 = c2
  Shutdown = Shutdown
  None = None
  Instances = {i1}
  Callers = {c1, c2}
  Threshold = 2
  MaxCalls = 2
  MaxFaults = 2
SPECIFICATION FairSpec
INVARIANTS
  NoOrphan
  GoneIsGone
  OnlineAgrees
  LiveIsListed

  
CHECK_DEADLOCK FALSE
