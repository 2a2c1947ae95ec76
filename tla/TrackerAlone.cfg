CONSTANTS
  t1 = t1
  t2 = t2
  f1 = f1
  f2 = f2
  none = none
  None = none
  Trackers <- MCTrackers
  FDs <- MCFDs
  GarbagePids <- NoneOnly
  GarbageFDs <- NoneOnly
  Hazards <- Failures
  MaxChunks = 2
SPECIFICATION FairSpec
CHECK_DEADLOCK FALSE
INVARIANTS
  TypeOK
  FreedIsClean
  SignalsOnlyItsChild
  NothingLost
  OwnMessages
PROPERTIES
  StopEnds
