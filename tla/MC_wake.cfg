SPECIFICATION Spec
CONSTANTS
  Id = {"a", "b", "c"}
  Url = {"d1", "d2"}
  NoDesktop = NoDesktop
  NoFile = NoFile
  EnvId = "a"
  EnvUrl = "d1"
  DefaultRetry = 2
  Unset = Unset
  Files <- SomeFiles
  WakeTimeout = 5
  Sending = 1
  Asking = 1
INVARIANTS
  TypeOK
  DesktopIsShared
  SentHasLeft
  RetriedInTime
  WindowIsBounded
  OneLatePacket
