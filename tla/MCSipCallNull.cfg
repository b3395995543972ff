SPECIFICATION Spec
CONSTANTS
  MaxCalls = 1
  None = None
INVARIANTS MessageIsNotNull
CHECK_DEADLOCK FALSE
