CONSTANTS
  Ops = {p1, p2}
  NHOME = 4
  Values = {0, 1}
  MAXOPBLOCKS = 2
  LOGSIZE = 4
  nlog = 4
SPECIFICATION Spec
INVARIANT LogFits
