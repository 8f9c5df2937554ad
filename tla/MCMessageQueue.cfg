\* A mailbox that holds a whole burst, a late client; lost patterns, slow sleeps.
SPECIFICATION FairSpec
CONSTANTS
  Slots = 4
  Mtu = 8
  Depth = 8
  Slack = 1
  MaxFaults = 2
INVARIANTS EveryPatternFits NoLedLeftOn
PROPERTIES BacklogClears
