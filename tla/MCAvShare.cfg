SPECIFICATION FairSpec
CONSTANTS
  Slots = 3
  MaxParts = 2
  MaxPackets = 6
  Resets = FALSE
  SlowScan = FALSE
INVARIANTS
  TypeOK
  NoSplice
  CutPacketsHeal
PROPERTIES
  RingIsFifo
CHECK_DEADLOCK FALSE
