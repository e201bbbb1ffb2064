SPECIFICATION FairSpec
CONSTANTS
  p1 = p1
  p2 = p2
  p3 = p3
  p4 = p4
  p5 = p5
  tty1 = tty1
  tty2 = tty2
  NoTty = NoTty
  Procs = {p1, p2, p3, p4, p5}
  Uid <- MCUid
  Euid <- MCEuid
  Capable = {p4}
  WriteOnly = {p1}
  NonBlocking = {p5}
  Keys = {tty1, tty2}
  Tty <- MCTty
  Plans <- MCPlans
  Smp = TRUE
INVARIANTS AccessRules WaiterWoken
PROPERTIES SingleKeepsData WaiterNotForgotten
