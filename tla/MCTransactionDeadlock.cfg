SPECIFICATION Spec
CONSTANTS
  Kinds <- MCKinds
INVARIANT NoLockCycle
CHECK_DEADLOCK FALSE
