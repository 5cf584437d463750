CONSTANTS
  r1 = r1
  r2 = r2
  r3 = r3
  r4 = r4
  c1 = c1
  c2 = c2
  n1 = n1
  n2 = n2
  Req <- ThreeRequests
  Code = {c1, c2}
  Name = {n1, n2}
  NameOf <- DistinctNames
  MayDo <- ServerCalls
  NoLink = NoLink
  NoView = NoView
  NoConn = NoConn
  NoFile = NoFile
  Partial = Partial
  NoCode = NoCode
  MaxAttempts = 2
  MaxFaults = 1
  MaxCrashes = 1
SPECIFICATION Spec
SYMMETRY CodeSymmetry
CHECK_DEADLOCK FALSE
INVARIANTS
  TypeOK
  AckedLinkServed
  StatsConsistent
  CountedWasServed
  NoFileLeftBehind
