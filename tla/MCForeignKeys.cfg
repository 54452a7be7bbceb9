SPECIFICATION Spec
CONSTANTS
  a = a
  b = b
  Tables = {a, b}
  Pks <- MCPks
  NULL = NULL
  Schemas <- MCSchemas
  SelfMoves = {}
  KeepPartial = FALSE
  Absent = Absent
  NoDefault = NoDefault
  Keep = Keep
  NoStmt = NoStmt
  NoMove = NoMove
INVARIANT
  NoOrphans
  IndexExact
  CascadesRespectConstraints
PROPERTY
  CascadesAreExact
