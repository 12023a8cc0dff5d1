SPECIFICATION Spec
CONSTANTS
  Programs <- AllPrograms
  MaxTrips = 2
INVARIANTS
  TypeOK
  ReadsAreGuarded
  GuardsTellTheTruth
  FactsAreTrue
