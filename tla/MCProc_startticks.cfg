CONSTANTS
  NPROC = 3
  NPRIO = 2
  NCPU = 1
  NCHAN = 1
  BOOSTTIMER = 2
  TickModulus = 2
  Calls = {"fork", "exit", "wait"}
SPECIFICATION Spec
PROPERTY StartsWithoutTicks
