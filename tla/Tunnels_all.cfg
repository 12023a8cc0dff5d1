SPECIFICATION Spec
CONSTANTS
  Types = {"i32", "f64"}
  Names = {"q", "r", "x"}
  Programs <- MCPrograms
INVARIANTS
  TypeOK
  AcceptedIsEmitted
  OutputPointersIntact
  TypesFit
  ReserveGetsValue
  NamedOutputsArrive
CHECK_DEADLOCK FALSE
