SPECIFICATION FairSpec
CONSTANTS
  r1 = r1
  r2 = r2
  w1 = w1
  w2 = w2
  Junk = junk
  NonBlocking = {}
  Pollers = {}
  TuneSizes = {}
  Readers = {r1}
  Writers = {w1}
  Asynchronous = {}
  Data = {a, b}
  InitialSize = 3
  ReadCounts = {0, 1}
  WriteCounts = {0, 1, 2}
INVARIANTS TypeOK PointersInBuffer
PROPERTIES IsFifo SleepersWoken
