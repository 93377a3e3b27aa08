SPECIFICATION Spec
CONSTANTS
  Machine = {m1, m2}
  Password = {p1, p2}
  MaxCommands = 2
  None = None
  Partial = Partial
SYMMETRY Symmetry
INVARIANT DisarmPasswordKept
CHECK_DEADLOCK FALSE
