SPECIFICATION FairSpec
CONSTANTS
  Machine = {m1, m2}
  Password = {p1}
  MaxCommands = 2
  None = None
  Partial = Partial
INVARIANTS
  EachCommandOnce
  AddressedAfterReport
PROPERTIES
  QuitTerminates
  QueueDrains
CHECK_DEADLOCK FALSE
