SPECIFICATION Spec
CONSTANTS
  r1 = r1
  r2 = r2
  w1 = w1
  w2 = w2
  Readers = {r1}
  Writers = {w1}
  NonBlocking = {}
  Pollers = {}
  Asynchronous = {}
  Data = {a}
  Junk = junk
  InitialSize = 3
  TuneSizes = {}
  ReadCounts = {1, 2}
  WriteCounts = {1, 2}
INVARIANTS ReadStopsAtEnd
