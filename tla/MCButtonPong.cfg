\* Every interleaving of presses, boots, toggles, sends and losses.
SPECIFICATION Spec
CONSTANTS
  Slots = 1
  Mtu = 4
  Depth = 2
  MaxPresses = 7
INVARIANTS LedMatchesConsole
PROPERTIES CounterSpec
