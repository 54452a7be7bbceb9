SPECIFICATION Spec
CONSTANTS
  a = a
  b = b
  Tables = {a, b}
  Pks <- MCPks
  NULL = NULL
  Schemas <- MCTree
  SelfMoves = {"kept"}
  KeepPartial = FALSE
  Absent = Absent
  NoDefault = NoDefault
  Keep = Keep
  NoStmt = NoStmt
  NoMove = NoMove
INVARIANT
  NoOrphans
