\* What a comment says of the status.
SPECIFICATION Spec
CONSTANTS
  Slots = 1
  Mtu = 12
  Depth = 2
  MaxSteps = 8
  MaxPresses = 1
PROPERTIES StatusShowsLeds
