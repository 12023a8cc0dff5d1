SPECIFICATION Spec
CONSTANTS
  Programs <- AllPrograms
  Addr = {p1, p2, p3}
  NULL = NULL
  UNINIT = UNINIT
  FirstCap = 2
  MaxTrips = 2
  AllocMayFail = TRUE
SYMMETRY Symmetry
INVARIANTS
  TypeOK
  DisciplinedIsSafe
  OnlyResetDangles
  OwnedOnce
  GrowthStaysWithTheArray
  NothingLeaks
