\* Every interleaving of presses, boots, sends and losses.
SPECIFICATION FairSpec
CONSTANTS
  Slots = 1
  Mtu = 4
  Depth = 4
  MaxPresses = 8
INVARIANTS PressesAccounted TotalResyncs
PROPERTIES TotalsInOrder PressesAreTaken
