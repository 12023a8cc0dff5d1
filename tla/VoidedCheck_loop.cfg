SPECIFICATION Spec
CONSTANTS
  Programs <- UsePrograms
  MaxTrips = 2
INVARIANT NoUseOfMoved
