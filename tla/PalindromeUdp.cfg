SPECIFICATION ServiceSpec
CONSTANTS
  Clients = {a, b}
  RcvBuf = 1
  MaxLines = 2
CHECK_DEADLOCK FALSE
INVARIANTS
  LockStep
  AnswersFit
PROPERTY
  QueuedIsAnswered
