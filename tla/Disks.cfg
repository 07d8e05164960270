CONSTANTS
  c1 = c1
  c2 = c2
  k1 = k1
  k2 = k2
  u1 = u1
  u2 = u2
  Client = {c1, c2}
  Call = {k1, k2}
  NoCall = NoCall
  Uuid = {u1, u2}
  NoUuid = NoUuid
  Asked <- AskedSizes
  Options <- OptionChoices
  NoDisk = NoDisk
  MB = 1
  Word = 4
SPECIFICATION Spec
SYMMETRY Alike
INVARIANTS RealmDisksTypeOK AnnouncedDisksAreFound EntriesMatchFiles HalfMadeNeedsFault FailuresNeedRace
PROPERTIES MadeDisksStay
CHECK_DEADLOCK FALSE
