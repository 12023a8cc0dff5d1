SPECIFICATION Behaviour
CONSTANTS
  Parts <- MCParts
  Words = {1, 2, 3}
  Comparator <- MCAscending
  Strings <- MCStrings
  Indices = {0, 1, 2, 3, 4}
  FirstCap = 1
  MaxCap = 4
  Garbage = Garbage
  Heap = {1, 2, 3, 4}
  Sizes = {1, 2, 3, 4}
  Byte = 2
  Arguments <- MCArguments
  Blanks = {2}
  Offsets <- MCOffsets
  IntLimit = 8
  Null = Null
  Texts <- MCTexts
  Conditions <- MCConditions
  Literals <- MCLiterals
  AsDouble <- MCAsDouble
  AsInteger <- MCAsInteger
  Width = 4
INVARIANTS WellFormed  TokensAreTheText FoldsAgree
PROPERTY ImplementsCollection
CHECK_DEADLOCK FALSE
