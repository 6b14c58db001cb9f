CONSTANTS
  ToolExecution = "parallel"
  MaxRuns = 2
  MaxCalls = 3
  MaxThrows = 2
SPECIFICATION FairSpec
INVARIANTS
  SequentialIsSequential
  PendingIsExact
  OutcomeIsAllowed
PROPERTIES
  BatchEnds
CHECK_DEADLOCK FALSE
