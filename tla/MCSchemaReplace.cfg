CONSTANTS
  p = p
  k = k
  a = a
  b = b
  Names = {p, q, r}
  Columns = {k, a, b}
  Keys = {0, 1}
  Null = Null
  IndexNames = {x}
  Shapes <- MCShapes
  Additions <- MCAdditions
  Quirks = {}
  MaxPages = 3
  MaxStatements = 5
SPECIFICATION Spec
PROPERTIES NothingReplaced
CHECK_DEADLOCK FALSE
