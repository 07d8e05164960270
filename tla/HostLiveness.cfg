CONSTANTS
  r1 = r1
  r2 = r2
  c1 = c1
  a = a
  b = b
  NoRealm = NoRealm
  Realm = {r1}
  Cid = {c1}
  CidOf <- OnlyCid
  Client = {a}
  Owner <- OnlyRealm
  Request = {"KillApp", "Shutdown"}
SPECIFICATION FairSpec
PROPERTIES AtMostOnce HostKeepsProtocol ClientUnblocked ShutdownCompletes
CHECK_DEADLOCK FALSE
