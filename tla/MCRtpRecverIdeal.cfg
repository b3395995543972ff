SPECIFICATION Spec
CONSTANTS
  Src = {1}
  N = 5
  FirstNumber = 7
  Marker <- MCMarker
  Video <- MCVideo
  BUFFERSIZE = 2
  Garbage = {0}
  Faults = {}
  MaxDup = 0
  None = None
PROPERTIES ImplementsFrameStream
CHECK_DEADLOCK FALSE
