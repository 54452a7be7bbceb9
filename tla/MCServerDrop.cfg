SPECIFICATION Spec
CONSTANTS
  d = d
  e = e
  t1 = t1
  t2 = t2
  i1 = i1
  i2 = i2
  None = None
  Names = {d}
  Threads = {t1}
  MaxConnections = 2
  Inodes = {i1, i2}
  MaxStmts = 1
  MaxSessions = 1
  Panics = FALSE
  Drops = TRUE
SYMMETRY Symmetric
INVARIANT AckedIsThere
