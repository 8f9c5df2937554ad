\* Failed fetches, failed sends and a late host.
SPECIFICATION FairSpec
CONSTANTS
  Slots = 1
  Mtu = 16
  Readings <- Gravity
  MaxSeq = 4
INVARIANTS GapsTellLosses RowsAreTrue
PROPERTIES SamplingGoesOn
