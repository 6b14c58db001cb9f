CONSTANTS
  SteeringMode = "one-at-a-time"
  FollowUpMode = "one-at-a-time"
  MaxMessages = 3
  MaxTurns = 1
  MaxCalls = 1
  MaxThrows = 1
  MaxClears = 0
SPECIFICATION Spec
INVARIANTS
  TypeOK
  NoMessageLostOrDoubled
  QueueOrder
  NothingLeftBehind
PROPERTIES
  FollowUpsWait
  DeliversInOrder
CHECK_DEADLOCK FALSE
