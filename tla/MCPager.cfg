SPECIFICATION Spec
CONSTANTS
  z = z
  a = a
  s1 = s1
  s2 = s2
  NotCached = NotCached
  MaxPage = 2
  Vals <- MCVals
  Zero = z
  Names <- MCNames
  Capacity = 2
  MaxDepth = 2
INVARIANTS
  CacheSound
  SnapshotsSound
PROPERTIES
  ImplementsTxStore
