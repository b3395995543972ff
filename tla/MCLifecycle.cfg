SPECIFICATION FairSpec
CONSTANTS
  Servers = {s1}
  NoUri = NoUri
  MaxClicks = 1
  Asked = 1
  MaxRaise = 2
  MaxStale = 2
INVARIANTS
  TypeOK
  OneLateKeepAlive
  KeepAliveOffEndpoint
  NeverBusy
  GoneForGood
  UnregisterOnly
PROPERTIES
  CloseEnds
  AttemptEnds
CHECK_DEADLOCK FALSE
