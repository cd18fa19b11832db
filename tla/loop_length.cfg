SPECIFICATION Spec
CONSTANTS
  Nibbles = {0, 1, 5}
  MaxEvents = 2
INVARIANTS
  TypeOK
  LengthSeen
  ShortLengthSeen
  LengthTaken
CHECK_DEADLOCK FALSE
