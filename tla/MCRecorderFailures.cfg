SPECIFICATION FairSpec
CONSTANTS
  MaxIndex = 2
  MaxTime = 0
  MaxDelete = 1
  RootFull = FALSE
  NoFile = NoFile
  Cards <- MixedCards
  Params <- MixedParams
  SlowLog = TRUE
  Restarts = TRUE
  UserMayDelete = TRUE
  EncoderMayFail = TRUE
  CardMayFail = TRUE
INVARIANTS
  ThreadsMatchState
  StopIsComplete
  StatusHonest
  CrashNeedsFailedRollover
PROPERTIES
  LostCardIsClosed
  KeepsPromise
  KnownFootageKept
  NewClipFollowsKnown
