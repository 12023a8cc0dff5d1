SPECIFICATION Spec
CONSTANTS
  b1 = b1
  b2 = b2
  Builds = {b1, b2}
  Plans <- MCPlans
  Compilers <- MCCompilers
  Prebuilt <- MCPrebuilt
  SourceDirs = 2
  Absent = Absent
INVARIANTS
  TypeOK
  NoTemporaryLeft
  SuccessIsReal
  LinksFailForAReason
PROPERTIES
  CacheIsKept
  EveryBuildEnds
CHECK_DEADLOCK FALSE
