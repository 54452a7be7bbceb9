SPECIFICATION FairSpec
CONSTANTS
  d = d
  e = e
  t1 = t1
  t2 = t2
  i1 = i1
  i2 = i2
  None = None
  Names = {d}
  Threads = {t1, t2}
  MaxConnections = 2
  Inodes = {i1, i2}
  MaxStmts = 2
  MaxSessions = 2
  Panics = TRUE
  Drops = TRUE
INVARIANTS
  LocksAreKept
  AnswersStand
PROPERTIES
  Isolated
  EndedByOwner
  EveryRequestAnswered
