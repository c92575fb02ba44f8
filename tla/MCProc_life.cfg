CONSTANTS
  NPROC = 3
  NPRIO = 1
  NCPU = 2
  NCHAN = 1
  BOOSTTIMER = 1
  TickModulus = 1
  Calls = {"fork", "exit", "wait", "kill"}
SPECIFICATION Spec
INVARIANTS OnOneCpu WaitNotLost ParentsAlive IInv
