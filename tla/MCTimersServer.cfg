\* A server that sends on one paced stream, over consecutive tests.
CONSTANTS
  Timer = {t1, t2, t3, t4, t5}
  NoTimer = NoTimer
  Stream = {s1}
  Side = "s"
  Duration = 1
  Omit = 1
  StatsInterval = 1
  ReporterInterval = 2
  Grace = 1
  PacingTimer = 1
  MaxStart = 1
  MaxTime = 5
SPECIFICATION FairSpec
INVARIANTS TypeOK HandlesAreScheduled NothingScheduledBetweenTests
CHECK_DEADLOCK FALSE
