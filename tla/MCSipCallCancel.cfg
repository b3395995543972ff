SPECIFICATION DeliveringSpec
CONSTANTS
  MaxCalls = 1
  None = None
PROPERTIES DelayedCancelIsSent
CHECK_DEADLOCK FALSE
