SPECIFICATION Spec
CONSTANTS
  Conns = {a, b}
  NoConn = NoConn
  MaxClients = 2
  MaxFd = 5
  SndBuf = 1
  RecvMax = 1
  MaxTyped = 1
  Residues = {"clean"}
SYMMETRY Symmetry
CHECK_DEADLOCK FALSE
INVARIANT
  SendErrorsAreHarmless
