CONSTANTS
  NPROC = 2
  NPRIO = 1
  NCPU = 1
  NCHAN = 1
  BOOSTTIMER = 1
  TickModulus = 1
  Calls = {"fork", "kill"}
SPECIFICATION Spec
PROPERTY KillsProcesses
