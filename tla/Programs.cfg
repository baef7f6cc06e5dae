SPECIFICATION CallSpec
CONSTANTS
  Script <- AllScripts
  Careless <- AllCareless
INVARIANTS
  ProgramsAreRead
  CallTypeOK
  UsesWhatItHolds
  ReleasesOnSuccess
  EchoRestored
  ServerComesFirst
CHECK_DEADLOCK FALSE
