SPECIFICATION FairSpec
CONSTANTS
  Clients = {a, b}
  NoClient = NoClient
  MaxStreams = 2
  BuffSize = 4
  Lines = {0, 1, 3}
  MaxRounds = 3
  MaxClock = 2
INVARIANTS
  TypeOK
  OwnEcho
  EndsAsAsked
  OneReading
PROPERTY
  Answered
CHECK_DEADLOCK FALSE
