CONSTANTS
  Procs = {1, 2}
  NBUF = 2
  Blocks = {10, 11, 12}
  Watched = {10}
  MaxPinned = 1
  DriveErrors = {FALSE}
  NoProc = 0
  NoBlock = NoBlock
  Writers = {1, 2}
  Readers = {3, 4}
  Bytes = {0}
  PIPESIZE = 1
  UintSize = 2
  MaxIO = 2
SPECIFICATION Spec
INVARIANTS CacheSound NoStrandedSleeper
PROPERTIES ImplementsBlockStore BreadReturns CallsReturn
CHECK_DEADLOCK FALSE
