CONSTANTS
  r1 = r1
  r2 = r2
  r3 = r3
  shoes = shoes
  Req = {r1, r2, r3}
  Entity = {shoes}
  MayDo <- Jobs
  Size <- Sizes
  NoFile = NoFile
  Hole = Hole
  MaxFaults = 1
  MaxCrashes = 1
SPECIFICATION FairSpec
CHECK_DEADLOCK FALSE
INVARIANTS
  TypeOK
  IdsSharedOnlyByOverlap
  CreatedIsRead
  CreatedIsListed
  SettledFileWhole
PROPERTY
  EveryApiRequestAnswered
