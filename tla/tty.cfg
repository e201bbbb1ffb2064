SPECIFICATION FairSpec
CONSTANTS
  p1 = p1
  p2 = p2
  p3 = p3
  t1 = t1
  t2 = t2
  NULL = NULL
  Procs = {p1, p2, p3}
  Tinys = {t1, t2}
  Environments <- QuietOrNot
  Calls = 2
INVARIANTS PortCorrect TimerCorrect
PROPERTIES CharactersCome CallsReturn
CHECK_DEADLOCK FALSE
