CONSTANTS
  Ops = {p1, p2, p3}
  NHOME = 2
  Values = {0, 1}
  MAXOPBLOCKS = 2
  LOGSIZE = 5
  nlog = 3
SPECIFICATION FairSpec
INVARIANTS CommitsAlone Pinned SleepersMustWait
PROPERTIES ImplementsAtomicDisk SleepersWake
