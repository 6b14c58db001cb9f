CONSTANTS
  ToolExecution = "parallel"
  MaxRuns = 1
  MaxCalls = 2
  MaxThrows = 1
SPECIFICATION Spec
INVARIANTS
  NoToolOutlivesItsRun
CHECK_DEADLOCK FALSE
