CONSTANTS
  m1 = m1
  m2 = m2
  Managers = {m1, m2}
  MaxFiles = 2
  MaxEntries = 3
  MaxFaults = 2
SPECIFICATION Spec
SYMMETRY ManagerSymmetry
CONSTRAINT InScope
INVARIANTS
  ParentsComeFirst
  AnsweredIsSaved
  OneLinePerFailure
PROPERTIES
  FilesOnlyGrow
  ForkKeepsContext
  ForkKeepsLabels
CHECK_DEADLOCK FALSE
