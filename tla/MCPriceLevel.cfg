SPECIFICATION Spec
CONSTANTS
  MaxNodes = 4
  Quantities = {0, 1, 2}
  Null = Null
INVARIANTS
  TypeOK
  RepresentsQueue
CHECK_DEADLOCK FALSE
