SPECIFICATION Spec
CONSTANTS
  Labels = {"", "a", "b", "<*>", "http_expr"}
  MaxSegments = 3
CHECK_DEADLOCK FALSE
INVARIANTS ListsMoreSpecific AgreesWithDefinition
PROPERTY Terminates
