SPECIFICATION Spec
CONSTANTS
  Base = 4
  Messages <- SampleMessages
  TimeStamp = 2
  Count = 3
  QueueMax = 2
INVARIANTS
  ChecksumsHold
  ChildEndsFirst
PROPERTY
  PingEnds
CHECK_DEADLOCK FALSE
