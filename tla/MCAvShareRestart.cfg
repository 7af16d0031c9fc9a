SPECIFICATION FairSpec
CONSTANTS
  Slots = 3
  MaxParts = 2
  MaxPackets = 5
  Resets = TRUE
  SlowScan = TRUE
INVARIANTS
  NoTornRead
PROPERTIES
  ChunksAreRead
CHECK_DEADLOCK FALSE
