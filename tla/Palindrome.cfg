SPECIFICATION Spec
CONSTANTS
  Digits = {"0", "1", "2"}
  Zero = "0"
  Letters = {"a"}
  Spaces = {"space"}
  Others = {"punct"}
  MaxLen = 6
CHECK_DEADLOCK FALSE
INVARIANTS
  TypeOK
  ComparesDigitsOnly
  ReturnsAsDescribed
PROPERTY
  Terminates
