CONSTANTS
  p1 = p1
  p2 = p2
  Procs = {p1, p2}
  NINODES = 3
  NINODE = 3
  Names <- names
  Mixes <- mixes
  NoProc = NoProc
SPECIFICATION Spec
SYMMETRY perms
INVARIANTS InodeCacheSound LinksSound 
CHECK_DEADLOCK FALSE
