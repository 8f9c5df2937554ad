\* Strings around the size of the buffers.
SPECIFICATION FairSpec
CONSTANTS
  Slots = 1
  Mtu = 4
  Depth = 2
  ECHO_MAX_LEN = 4
  TestStrings <- BoundaryStrings
  MaxSent = 7
INVARIANTS TypeOK PathIntact
PROPERTIES VerdictTellsLateness EchoedInOrder EveryStringSettles
