SPECIFICATION LoadSpec
CONSTANTS
  p1 = p1
  p2 = p2
  NoNode = NoNode
  Openers = {p1, p2}
  Plans <- EachFamily
  NDevs = 2
  MayFail = {"scull_devices"}
INVARIANTS OnlyOwnReleased
