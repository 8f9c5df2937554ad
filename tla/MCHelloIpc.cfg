\* One slot each way, a queue of one; safety and liveness.
SPECIFICATION FairSpec
CONSTANTS
  Slots = 1
  Mtu = 8
  Depth = 1
  MaxSeq = 6
INVARIANTS Accounted AcksAreHeard ConsoleShowsLed
PROPERTIES ServiceSpec EveryPingSettles
