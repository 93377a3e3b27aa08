SPECIFICATION Spec
CONSTANTS
  DefaultSize = 2
  Byte = {1, 2}
  Junk = Junk
  Strings <- MCStrings
  MaxSize = 9
INVARIANTS
  BlockSound
PROPERTIES
  ImplementsByteString
CHECK_DEADLOCK FALSE
