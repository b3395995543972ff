SPECIFICATION FairSpec
CONSTANTS
  MaxCalls = 2
  None = None
INVARIANTS
  TypeOK
  DialogLifetime
  SendByeHoldsDialog
  UndefinedNeedsDeadCall
  StaleNeedsLeak
  AbandonedOnlyByCancel
PROPERTIES EndedCallIsFreed
CHECK_DEADLOCK FALSE
