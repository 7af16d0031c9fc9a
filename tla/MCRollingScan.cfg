SPECIFICATION Spec
CONSTANTS
  Names <- MCNames
  MaxTime = 1
  MaxScan = 3
  MaxDelete = 2
  NoClip = NoClip
INVARIANTS
  OldestKept
PROPERTIES
  DeletesOldestFirst
CHECK_DEADLOCK FALSE
