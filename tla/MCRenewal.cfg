SPECIFICATION Spec
CONSTANTS
  DelayBeforeRefresh = 5
  Grants <- MCGrants
  Trip = 2
INVARIANT
  LapsesOnlyIfShort
