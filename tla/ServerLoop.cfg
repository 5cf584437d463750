CONSTANTS
  main = main
  w1 = w1
  w2 = w2
  p1 = p1
  s1 = s1
  x1 = x1
  Main = main
  Worker = {w1, w2}
  Client = {p1, s1, x1}
  Asks <- ClientAsks
  MaySignal = TRUE
  MaxAcceptErrors = 1
SPECIFICATION FairSpec
CHECK_DEADLOCK FALSE
INVARIANTS
  TypeOK
  OneHandlerPerSession
  StopsForAReason
  LossesAccounted
PROPERTIES
  EverybodyServed
  StopEndsMain
