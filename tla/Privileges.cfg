SPECIFICATION Spec
CONSTANTS
  Users = {1000, 1001}
  Ports = {0, 80, 1023, 1024, 8080, 65616}
INVARIANTS
  TypeOK
  ServesUnprivileged
  RefusedWithoutRight
CHECK_DEADLOCK FALSE
