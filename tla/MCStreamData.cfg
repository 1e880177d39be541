\* Blocks of two bytes, connections that hold a block and a half.
CONSTANTS
  Configs <- MCConfigs
  Block = 2
  SocketBuffer = 3
  MaxDuplicates = 1
  MaxTime = 3
SPECIFICATION FairSpec
INVARIANTS
  TypeOK LossCounterIsExact IntervalsAddUp ReportsAgree LossIsAFraction ThrottleHolds
  LimitIsKept LimitIsMovingAverage FileIsSentOnce
PROPERTIES TestEnds
CHECK_DEADLOCK FALSE
