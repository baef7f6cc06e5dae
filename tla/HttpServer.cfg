SPECIFICATION FairSpec
CONSTANTS
  Conns = {a, b, c}
  Kinds = {"page", "image", "missing", "folder"}
  MaxFd = 6
  SndBuf = 1
  Chunks = 2
  Nothing = Nothing
CHECK_DEADLOCK FALSE
INVARIANTS
  TypeOK
  OwnAnswers
  KeepsConnection
  AcceptFindsDescriptor
PROPERTY
  Answered
