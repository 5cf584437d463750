CONSTANTS
  r1 = r1
  r2 = r2
  r3 = r3
  r4 = r4
  c1 = c1
  c2 = c2
  n1 = n1
  n2 = n2
  Req <- FourRequests
  Code = {c1}
  Name = {n1, n2}
  NameOf <- DistinctNames
  MayDo <- ServiceCalls
  NoLink = NoLink
  NoView = NoView
  NoConn = NoConn
  NoFile = NoFile
  Partial = Partial
  NoCode = NoCode
  MaxAttempts = 1
  MaxFaults = 1
  MaxCrashes = 1
SPECIFICATION Spec
CHECK_DEADLOCK FALSE
INVARIANTS
  AckedLinkKept
  FileBehindLink
  ClickOfSeenLink
PROPERTIES
  RowsStable
  ImplementsLinkPromise
