SPECIFICATION FairSpec
CONSTANTS
  Frames <- MCFrames
  MaxLen = 200
  PacketSize = 32
  MaxSections = 3
  CutLen <- MCCutLen
INVARIANTS TypeOK UnreadIsIntact OneSectionBeyond WholeFrameExtracted DamageStaysLocal
PROPERTIES Terminates
CHECK_DEADLOCK FALSE
