\* A client that sends on two paced streams.
CONSTANTS
  Timer = {t1, t2, t3, t4, t5, t6}
  NoTimer = NoTimer
  Stream = {s1, s2}
  Side = "c"
  Duration = 1
  Omit = 1
  StatsInterval = 1
  ReporterInterval = 2
  Grace = 1
  PacingTimer = 1
  MaxStart = 2
  MaxTime = 5
SPECIFICATION FairSpec
INVARIANTS SelectWakesInTime HandlesAreScheduled CancelledTimersDoNotRun
PROPERTY TestTimerExpires
CHECK_DEADLOCK FALSE
