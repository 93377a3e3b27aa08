SPECIFICATION FairSpec
CONSTANTS
  t1 = t1
  t2 = t2
  Timers <- TwoTimers
  TCP = TCP
  NULL = NULL
  MaxStops = 3
  MaxWrites = 2
INVARIANTS
  OneAtATime
  OwnBytesOnly
  ClosedOnce
  TimerOutlivedOnlyAfterStop
PROPERTIES
  ImplementsAutoLink
  DownEnds
CHECK_DEADLOCK FALSE
