SPECIFICATION Spec
CONSTANTS
  Procs = {p1, p2}
  Builtin = {INPUT}
  Own = {mine}
  Numbers = {0, 2}
  Null = Null
  MaxSerial = 3
INVARIANTS
  TypeOK
  CompleteCommand
  LosesOnlyMixedUpdates
