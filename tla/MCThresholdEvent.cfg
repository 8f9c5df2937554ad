\* Noise and motion.
SPECIFICATION FairSpec
CONSTANTS
  Slots = 1
  Mtu = 16
  Depth = 1
  Readings <- NoiseAndMotion
  CALIB_SAMPLES = 3
  DefaultThreshold = 4
  HostThreshold = 7
  MaxSeq = 3
INVARIANTS TypeOK
PROPERTIES EventMeansMotion TimelyThresholdRules EventsInOrder ThresholdTakesEffect PollingGoesOn
