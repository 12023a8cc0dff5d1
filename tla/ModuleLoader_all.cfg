SPECIFICATION FairSpec
CONSTANTS
  Main = main
  Files = {main, a, b}
  MaxDetours = 2
  Hows = {"plain", "around", "name"}
  MostImports = 3
  Directories <- MCDirectories
INVARIANTS
  TypeOK
  CyclesAreReal
  AllIsReachable
  ExportsAreComplete
  ParsedOncePerSpelling
PROPERTY
  LoadingEnds
