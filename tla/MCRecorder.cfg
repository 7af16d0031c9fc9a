SPECIFICATION FairSpec
CONSTANTS
  MaxIndex = 2
  MaxTime = 1
  MaxDelete = 1
  RootFull = TRUE
  NoFile = NoFile
  Cards <- RoomyCards
  Params <- RollingParams
  SlowLog = FALSE
  Restarts = FALSE
  UserMayDelete = TRUE
  EncoderMayFail = FALSE
  CardMayFail = TRUE
INVARIANTS
  TypeOK
  OpenClipKept
PROPERTIES
  FootageOnlyReclaimed
  NewClipIsLast
  WantedRecordingRuns
