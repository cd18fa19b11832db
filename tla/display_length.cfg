SPECIFICATION Spec
CONSTANTS
  Nibbles = {0, 1, 5}
  MaxEvents = 2
INVARIANT
  DisplayedLengthRight
CHECK_DEADLOCK FALSE
