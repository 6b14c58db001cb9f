CONSTANTS
  SteeringMode = "all"
  FollowUpMode = "one-at-a-time"
  MaxMessages = 2
  MaxTurns = 1
  MaxCalls = 2
  MaxThrows = 2
  MaxClears = 1
SPECIFICATION FairSpec
INVARIANTS
  TranscriptIsContext
  RequestsAreAnswered
  IdleIsQuiet
PROPERTIES
  EveryRunEnds
CHECK_DEADLOCK FALSE
