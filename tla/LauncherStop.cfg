CONSTANTS
  a1 = a1
  a2 = a2
  p1 = p1
  p2 = p2
  p3 = p3
  App = {a1}
  Proc = {p1, p2, p3}
  AppOf <- OneApp
  NoProc = NoProc
  Obedient = {p2, p3}
  LastWords <- Talking
  PipeSize = 1
SPECIFICATION LauncherFairSpec
PROPERTY TerminateReturns
CHECK_DEADLOCK FALSE
