SPECIFICATION Spec
CONSTANTS
  Types = {"i32", "f64"}
  Names = {"q", "r", "x"}
  Programs <- MCPrograms
INVARIANT AllOutputsWritten
CHECK_DEADLOCK FALSE
