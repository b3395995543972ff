SPECIFICATION Spec
CONSTANTS
  Servers = {s1}
  NoUri = NoUri
  MaxClicks = 1
  Asked = 1
  MaxRaise = 2
  MaxStale = 1
INVARIANT NoPendingAtDestroy
CHECK_DEADLOCK FALSE
