CONSTANTS
  r = r
  Names = {x}
  Fields = {r}
  Columns <- MCColumns
  MinInt <- MCMinInt
  MaxInt = 1
  Null = Null
  Unset = Unset
  SpNames = {s}
  Ranges <- MCRanges
  MaxLoop = 2
  MaxTriggerDepth = 1
  MaxFrames = 5
  MaxStatements = 4
SPECIFICATION Spec
INVARIANTS StackIsTold LogTellsStatements
PROPERTIES NothingHalfCommitted ScopesAreKept BatchEnds
