\* Two questions, with losses everywhere.
SPECIFICATION FairSpec
CONSTANTS
  Slots = 1
  Mtu = 12
  Depth = 1
  MaxSteps = 8
  MaxPresses = 1
INVARIANTS StatusTellsLosses PressesAreFresh LedsFollowHost
PROPERTIES RepliesInOrder EveryQuestionSettles
