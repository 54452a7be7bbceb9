SPECIFICATION WalSpec
CONSTANTS
  h = h
  p1 = p1
  p2 = p2
  Torn = Torn
  NoFile = NoFile
  None = None
  Header = h
  DbPages = {h, p1, p2}
  Environments <- BadRecordEnvironments
  Tails = {}
  Tearable = {p1}
INVARIANT RefusedReplaySparesDb
CHECK_DEADLOCK FALSE
