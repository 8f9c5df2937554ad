\* A board that is left still.
SPECIFICATION Spec
CONSTANTS
  Slots = 1
  Mtu = 16
  Depth = 1
  Readings <- StillBoard
  CALIB_SAMPLES = 2
  DefaultThreshold = 4
  HostThreshold = 7
  MaxSeq = 1
INVARIANTS StillBoardIsSilent
