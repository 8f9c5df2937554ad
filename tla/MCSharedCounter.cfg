\* A late client, lost counters and slow sleeps, through the counter's wrap.
SPECIFICATION Spec
CONSTANTS
  Slots = 1
  Mtu = 4
  Depth = 4
  Slack = 1
  Modulus = 16
INVARIANTS TypeOK DisplayKeepsUp
PROPERTIES LedTellsCounter
