CONSTANTS
  NPROC = 3
  NPRIO = 3
  Sleepers = {p1, p2}
  TICKS = 6
  Naps = {0, 1, 3}
  MaxLate = 2
  INPUT_BUF = 3
  IDX = 6
  ConReaders = {p1, p2}
  COLS = 2
  ROWS = 3
  Cpus = {c1, c2}
  Tasks = {p1, p2}
  NoCpu = NoCpu
  MemProcs = {1, 2}
  NPAGES = 16
  PGSIZE = 2
  NPTENTRIES = 2
  KERNBASE = 12
  KTABLES = 1
  UINT = 32
  Programs <- programs
  Deltas <- deltas
  BSIZE = 2
  NDIRECT = 2
  NINODES = 5
  IPB = 6
  LOGSIZE = 1
  FSSIZE = 16
  BlockProcs = {p1, p2}
  Disks <- disks
  MAXOPBLOCKS = 6
  Lens = {1, 3, 8}
  Byte = 9
  MaxCalls = 5
  Writers = {w1}
  Readers = {r1}
  Bytes = {0, 1}
  PIPESIZE = 2
  UintSize = 4
  MaxIO = 3
  BITS = 7
  DIRSIZ = 2
  MaxLen = 5
  HEADER = 8
  NALLOC = 4
  HEAP0 = 2
  HEAPEND = 14
  Requests = {1, 9, 33}
  MAXARGS = 3
  MaxLine = 4
SPECIFICATION Spec
SYMMETRY perms
INVARIANTS ConsoleSound SpinSound DiskSound  HeapSound ParsesGrammar
PROPERTIES LoopsExact SleepsExactly ImplementsTerminal ImplementsByteStream MemorySound ImplementsFlatFile
CHECK_DEADLOCK FALSE
