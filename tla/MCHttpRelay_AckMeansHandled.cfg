SPECIFICATION Spec
CONSTANTS
  Machine = {m1}
  Conn = {1, 2}
  None = None
  MaxEvents = 1
  MaxExtra = 0
  MaxFailed = 1
SYMMETRY Symmetry
INVARIANT AckMeansHandled
CHECK_DEADLOCK FALSE
