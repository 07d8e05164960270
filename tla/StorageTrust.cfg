CONSTANTS
  Image <- Images
  Tar = {"a", "b"}
  Rest = {"pad"}
  App = App
  Name = {App}
  NoId = NoId
  Users <- UsersDef
  Groups <- GroupsDef
  MaxId = 7
  NoImage = NoImage
  NoDir = NoDir
  Partial = Partial
  NoProcess = NoProcess
  MaxBoot = 4
SPECIFICATION Spec
INVARIANT RunsOnlyVerifiedImages
CHECK_DEADLOCK FALSE
