\* The seq wraps at 8; both queues and mailbox directions have room for more
\* than one message, so that a second ball would be seen.
SPECIFICATION FairSpec
CONSTANTS
  Slots = 2
  Mtu = 4
  Depth = 2
  Modulus = 8
INVARIANTS SingleBall CoresAgree
PROPERTIES RallyGoesOn TakesTurns
