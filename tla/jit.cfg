SPECIFICATION FairSpec
CONSTANTS
  p1 = p1
  p2 = p2
  g1 = g1
  g2 = g2
  d1 = d1
  d2 = d2
  NULL = NULL
  Procs = {p1, p2}
  Pages = {g1, g2}
  Datas = {d1, d2}
  PageLines = 3
  Environments <- OneProcessorForJiq
  Loops = 2
  Delay = 1
  Range = 4
  Limit = 1
INVARIANTS NoStrayAccess
PROPERTIES DelayKept ReadIsPrinted ReadsReturn
