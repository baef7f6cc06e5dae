SPECIFICATION FairSpec
CONSTANTS
  Conns = {a, b}
  NoConn = NoConn
  MaxClients = 2
  MaxFd = 5
  SndBuf = 1
  RecvMax = 1
  MaxTyped = 2
  Residues = {"clean"}
CHECK_DEADLOCK FALSE
PROPERTIES
  GoneIsForgotten
  LinesRelayed
