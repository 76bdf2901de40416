SPECIFICATION Spec
CONSTANTS
  Size = 2
  Length = 6
  Partial = FALSE
  MaxRingbuf = 4
  Rooms = {2}
INVARIANT ReceivedAll
CHECK_DEADLOCK FALSE
