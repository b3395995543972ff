SPECIFICATION Spec
CONSTANTS
  Port = {p1, p2}
  p1 = p1
  p2 = p2
  MaxPlays = 3
  MaxFrames = 4
SYMMETRY Ports
INVARIANTS TypeOK OldCallFadesOut BindNeedsUnstopped
PROPERTIES QuietIsSafe
CHECK_DEADLOCK FALSE
