SPECIFICATION FairSpec
CONSTANTS
  Kinds <- MCKinds
INVARIANTS
  TypeOK
  RefsAreHeld
  UsersHoldTsx
  NothingForgotten
  RetransmitArmed
PROPERTIES
  ImplementsTsxLife
  EveryTransactionEnds
CHECK_DEADLOCK FALSE
