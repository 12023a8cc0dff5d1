SPECIFICATION Spec
CONSTANTS
  Programs <- ConditionalPrograms
  Addr = {p1, p2, p3}
  NULL = NULL
  UNINIT = UNINIT
  FirstCap = 2
  MaxTrips = 2
  AllocMayFail = FALSE
SYMMETRY Symmetry
INVARIANT MemorySafe
