CONSTANTS
  r1 = r1
  r2 = r2
  c1 = c1
  a = a
  b = b
  NoRealm = NoRealm
  Realm = {r1}
  Cid = {c1}
  CidOf <- OnlyCid
  Client = {a}
  Owner <- OnlyRealm
  Request = {"Shutdown"}
SPECIFICATION Spec
INVARIANT AlreadyRunningIsRunning
CHECK_DEADLOCK FALSE
