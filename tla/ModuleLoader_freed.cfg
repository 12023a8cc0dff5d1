SPECIFICATION Spec
CONSTANTS
  Main = main
  Files = {main, a, b}
  MaxDetours = 1
  Hows = {"plain"}
  MostImports = 3
  Directories <- MCDirectories
INVARIANT DeletedOnce
