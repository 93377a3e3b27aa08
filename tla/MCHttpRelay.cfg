SPECIFICATION FairSpec
CONSTANTS
  Machine = {m1, m2}
  Conn = {1, 2}
  None = None
  MaxEvents = 2
  MaxExtra = 1
  MaxFailed = 0
INVARIANTS
  SessionWellFormed
  AckedWasPosted
  FirstPostsInOrder
PROPERTY ReportsAcknowledged
CHECK_DEADLOCK FALSE
