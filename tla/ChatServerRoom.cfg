SPECIFICATION Spec
CONSTANTS
  Conns = {a, b, c}
  NoConn = NoConn
  MaxClients = 3
  MaxFd = 6
  SndBuf = 1
  RecvMax = 1
  MaxTyped = 1
  Residues = {"clean"}
SYMMETRY Symmetry
CHECK_DEADLOCK FALSE
PROPERTY
  ImplementsRoom
