CONSTANTS
  c1 = c1
  c2 = c2
  None = None
  Callers = {c1, c2}
  MaxInputs = 3
  MaxFaults = 2
SPECIFICATION FairSpec
CONSTRAINT InBudget
INVARIANTS
  WritesSavedOnce
  NothingHeldBack
  ContextIsSaved
PROPERTIES
  CallsEnd
CHECK_DEADLOCK FALSE
