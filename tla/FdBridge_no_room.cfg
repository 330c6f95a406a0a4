SPECIFICATION Spec
CONSTANTS
  Cap = 4
  InitialNodes = 2
INVARIANT
  WriteBuffIsThere
CHECK_DEADLOCK FALSE
