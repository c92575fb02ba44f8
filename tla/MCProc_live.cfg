CONSTANTS
  NPROC = 2
  NPRIO = 2
  NCPU = 1
  NCHAN = 2
  BOOSTTIMER = 2
  TickModulus = 2
  Calls = {"fork", "exit", "wait", "kill", "kernel", "fault", "device"}
SPECIFICATION FairSpec
PROPERTIES NoStarvation KilledLeavesUser
