SPECIFICATION Spec
CONSTANTS
  MaxIndex = 2
  MaxTime = 0
  MaxDelete = 1
  RootFull = TRUE
  NoFile = NoFile
  Cards <- FullCards
  Params <- RollingParams
  SlowLog = FALSE
  Restarts = FALSE
  UserMayDelete = FALSE
  EncoderMayFail = TRUE
  CardMayFail = TRUE
PROPERTIES
  StopsOnlyOnFullCard
