CONSTANTS
  Script <- LengthLast
  Pipelining = FALSE
  MaxRead = 8
  Room = 2
  Window = 2
SPECIFICATION Spec
CHECK_DEADLOCK FALSE
INVARIANT
  OnlyCompleteProcessed
