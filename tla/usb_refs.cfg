SPECIFICATION FairSpec
CONSTANTS
  p1 = p1
  p2 = p2
  s1 = s1
  s2 = s2
  b1 = b1
  b2 = b2
  NULL = NULL
  Procs = {p1, p2}
  Skels = {s1, s2}
  Buffers = {b1}
  Packets = 2
INVARIANTS SkelCounted
CHECK_DEADLOCK FALSE
PROPERTIES NothingLeaks ReadNotStale
