SPECIFICATION FairSpec
CONSTANTS
  p1 = p1
  p2 = p2
  NULL = NULL
  Procs = {p1, p2}
  NSectors = 2
  Byte = {0, 1}
  Shapes <- EqualShapes
  Modes = {"simple", "full", "noqueue"}
  Serial = TRUE
INVARIANTS MediumAtRest
PROPERTIES IsSectorDisk CallsEnd
