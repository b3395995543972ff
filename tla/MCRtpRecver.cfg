SPECIFICATION FairSpec
CONSTANTS
  Src = {1}
  N = 4
  FirstNumber = 0
  Marker <- MCMarkerLossy
  Video <- MCVideoLossy
  BUFFERSIZE = 2
  Garbage = {0, 1}
  Faults <- MCLossy
  MaxDup = 1
  None = None
INVARIANTS TypeOK DamageIsReported OverflowIsReported OneLateFrame
PROPERTIES StopEndsThread EverySourceDrains
CHECK_DEADLOCK FALSE
