CONSTANTS
  Writers = {w1, w2}
  Readers = {r1}
  Bytes = {0}
  PIPESIZE = 2
  UintSize = 4
  MaxIO = 3
SPECIFICATION PipeSpec
INVARIANT ReadersSleepOnEmpty
CHECK_DEADLOCK FALSE
