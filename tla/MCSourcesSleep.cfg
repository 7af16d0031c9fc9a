SPECIFICATION Spec
CONSTANTS
  DarkThresh = 2
  Sessions <- SleepSessions
INVARIANT
  ButtonWakes
