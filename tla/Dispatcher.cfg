CONSTANTS
  r1 = r1
  r2 = r2
  r3 = r3
  c1 = c1
  c2 = c2
  Realm = {r1, r2, r3}
  Cid = {c1, c2}
  CidOf <- SharedCids
  NoRealm = NoRealm
SPECIFICATION DispatcherSpec
INVARIANTS NothingLeftToMatch OneHolderPerStream StreamFromRequestedCid
PROPERTIES DialedGuestReachesTask MeetsAtOnce
CHECK_DEADLOCK FALSE
