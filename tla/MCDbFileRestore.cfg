SPECIFICATION Spec
CONSTANTS
  a = a
  b = b
  p = p
  q = q
  i1 = i1
  i2 = i2
  i3 = i3
  w1 = w1
  w2 = w2
  Absent = Absent
  None = None
  Paths = {a, b}
  Inodes = {i1, i2, i3}
  Wals = {w1, w2}
  Procs = {p}
  Jobs <- RestoreJobs
  Existing = {a, b}
  MaxVer = 2
  Kill = TRUE
SYMMETRY Symmetric
INVARIANT GoodIsCommitted
