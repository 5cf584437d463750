CONSTANTS
  Script <- Conversation
  Pipelining = TRUE
  MaxRead = 6
  Room = 1
  Window = 1
SPECIFICATION FairSpec
CHECK_DEADLOCK FALSE
INVARIANTS
  TypeOK
  NothingHandledTwice
  OnlyRestsSpoiled
PROPERTIES
  ImplementsExchange
  EveryMessageAnswered
