SPECIFICATION FamilySpec
CONSTANTS
  p1 = p1
  p2 = p2
  p3 = p3
  Procs = {p1, p2}
  WriteOnly = {p2}
  Admins = {p1}
  LockedTrim = TRUE
  Data = {a, b}
  Junk = junk
  Page = 1
  Quantum = 1
  Qset = 2
  Quanta = {2}
  Qsets = {}
  ReadCounts = {1}
  WriteCounts = {2}
  Offsets = {0}
  MaxPos = 3
INVARIANTS MutualExclusion CopiesInside DataMatchesGeometry
PROPERTIES IsByteFile
