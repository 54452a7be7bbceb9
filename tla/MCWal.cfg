SPECIFICATION FairSpec
CONSTANTS
  h = h
  p1 = p1
  p2 = p2
  Torn = Torn
  NoFile = NoFile
  None = None
  Header = h
  DbPages = {h, p1, p2}
  Environments <- MCEnvironments
  Tails = {"hdr", "data"}
  Tearable = {h, p1}
INVARIANTS
  ServesAcked
  AckIsDurable
  RedoReady
  StaleWalHarmless
PROPERTY RecoversEventually
CHECK_DEADLOCK FALSE
