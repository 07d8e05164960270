CONSTANTS
  a1 = a1
  a2 = a2
  p1 = p1
  p2 = p2
  p3 = p3
  App = {a1, a2}
  Proc = {p1, p2, p3}
  AppOf <- TwoApps
  NoProc = NoProc
  Obedient = {p2, p3}
  LastWords <- Silent
  PipeSize = 1
  Unknown = Unknown
  NoCommand = NoCommand
SPECIFICATION FairSpec
PROPERTIES ManagerKeepsProtocol KillAppAnswered TerminateAnswered
INVARIANTS AppManagerTypeOK NoAppBeforeAllPrepared OneCallAtATime AnswerMeansEffect
CHECK_DEADLOCK FALSE
