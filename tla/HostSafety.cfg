CONSTANTS
  r1 = r1
  r2 = r2
  c1 = c1
  a = a
  b = b
  NoRealm = NoRealm
  Realm = {r1, r2}
  Cid = {c1}
  CidOf <- SharedCid
  Client = {a, b}
  Owner <- OwnClients
  Request = {"KillApp"}
SPECIFICATION Spec
INVARIANTS TypeOK DaemonExitClean ListenerFailsForDeadTask OneOutstanding LockstepOnWire InfoComesFirst
SYMMETRY SwapShared
CHECK_DEADLOCK FALSE
