SPECIFICATION FairSpec
CONSTANTS
  LossThr = 3
  AcqThr = 2
  StatusPeriod = 1
  MaxQueue = 2
  Sessions <- AllSessions
INVARIANTS
  TypeOK
  RecordingIsKnown
PROPERTIES
  BeliefConverges
  AutoRecordReturns
  DarkSourceStops
  PendingIsServed
