SPECIFICATION FairSpec
CONSTANTS
  ChanSize = 2
  Objects = 2
  MaxVer = 4
  MaxCloses = 2
INVARIANTS TypeOK InOrder OpenIsCurrent
PROPERTIES LostForGood CatchesUp ImplementsWatched
CHECK_DEADLOCK FALSE
