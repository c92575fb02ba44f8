CONSTANTS
  NPROC = 3
  NPRIO = 2
  NCPU = 2
  NCHAN = 1
  BOOSTTIMER = 1
  TickModulus = 1
  Calls = {"fork", "kernel"}
SPECIFICATION Spec
INVARIANTS QuantumKept QueuesHoldRunnable
PROPERTIES HighestPriorityFirst DemotionEarned ImplementsMLFQ
