SPECIFICATION TreeSpec
CONSTANTS
  Absent = Absent
  Keys = {1, 2, 3, 4, 5}
  Values = {"small", "large", "huge"}
  Size <- SizeOf
  LeafRoom = 2
  MaxEntries = 2
  MaxPages = 11
  MaxWasted = 1
INVARIANTS
  WellFormed
  ReadsAreExact
