SPECIFICATION FairSpec
CONSTANTS
  Slots = 3
  MaxParts = 2
  MaxPackets = 4
  Resets = TRUE
  SlowScan = FALSE
INVARIANTS
  NoSplice
CHECK_DEADLOCK FALSE
