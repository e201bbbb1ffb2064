SPECIFICATION Spec
CONSTANTS
  r1 = r1
  r2 = r2
  w1 = w1
  w2 = w2
  Data = {a}
  Junk = junk
  Readers = {r1, r2}
  Writers = {w1, r2}
  NonBlocking = {r2}
  Pollers = {r1}
  Asynchronous = {r1}
  InitialSize = 2
  TuneSizes = {3}
  ReadCounts = {1}
  WriteCounts = {2}
INVARIANTS MutualExclusion FilesAccounted NoLostWakeup SleepersServed
