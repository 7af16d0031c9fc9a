SPECIFICATION Spec
CONSTANTS
  LossThr = 3
  AcqThr = 2
  StatusPeriod = 1
  MaxQueue = 2
  Sessions <- MenuSessions
INVARIANTS
  MenuStopsRecording
