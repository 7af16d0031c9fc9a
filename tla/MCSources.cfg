SPECIFICATION FairSpec
CONSTANTS
  DarkThresh = 2
  Sessions <- AllSessions
INVARIANTS
  TypeOK
  ParkedAtHome
  SleepIsDark
PROPERTIES
  PictureReturns
  PanelReturns
